---- MODULE Spec2Model ----
(***************************************************************************)
(* AI Context Studio: the scan -> read -> generate pipeline.               *)
(*                                                                         *)
(*   SpecGen   GeminiAPIClient.generate_documentation (retry loop) driven  *)
(*             by GeneratorTab's single / selected / bundle workers, the   *)
(*             cancel button and the UI event queue.                       *)
(*   SpecScan  FastFileScanner.scan over a directory tree, with cancel().  *)
(*   SpecRead  FastFileScanner.read_files, the file tree's include flags   *)
(*             and GeneratorTab._validate_and_prepare.                     *)
(*   SpecLedger      CostHistoryManager: add_entry / clear / _save by two  *)
(*                   callers, write failures, crash and restart.           *)
(*   SpecLedgerFull  the same on a ledger file at the entry cap.           *)
(*   SpecSpend       CostHistoryManager.get_total_spend and get_entries.   *)
(*   SpecCache       the model cache and get_available_models.             *)
(*   SpecEstimate    TokenEstimator.estimate_tokens.                       *)
(*   SpecDocs        FastFileScanner.detect_existing_docs.                 *)
(*   SpecCost        ModelRegistry.get_model, estimate_output_tokens and   *)
(*                   CostCalculator.                                       *)
(***************************************************************************)
EXTENDS Integers, Sequences, FiniteSets, TLC

VARIABLES
    \* ---- GeneratorTab / GeminiAPIClient
    generating,         \* GeneratorTab._generating
    cancel_generation,  \* GeneratorTab._cancel_generation
    event_queue,        \* UIEventQueue._queue: callbacks posted by the worker
    wtask,              \* the task submitted to the executor: none/single/multi
    wpc,                \* position of the worker thread
    total_docs,         \* total_docs of the running task
    doc_i,              \* loop index i of selected_task / bundle_task
    completed,          \* local counter of the multi-document task
    failed,             \* local counter of the multi-document task
    attempt,            \* loop variable of generate_documentation
    last_error,         \* local last_error of generate_documentation
    result,             \* the GenerationResult of the current call
    glog,               \* what the current generate_documentation call did
    cancel_mark,        \* where the worker was when cancel was requested
    genai_available,    \* module constant GENAI_AVAILABLE
    \* ---- FastFileScanner.scan
    tree,               \* the directory tree under the scan root
    progress_callback,  \* FastFileScanner._progress_callback is set
    cancel_flag,        \* FastFileScanner._cancel_flag
    spc,                \* position of scan(): idle/scanning/complete/cancelled/raised
    sstack,             \* the _scan_dir calls in progress, innermost last
    files_found,        \* local files_found of scan()
    scan_result,        \* the ScanResult scan() builds and returns
    progress,           \* percents the progress callback received in this call
    entry_flag,         \* the cancel flag as scan() found it on entry
    \* ---- SetupTab / FastFileScanner.read_files / _validate_and_prepare
    disk,               \* what reading each scanned file gives
    has_result,         \* SetupTab._scan_result is not None
    tab_files,          \* _scan_result.files, the list the file tree shares
    content_map,        \* _scan_result.content_map
    rmode,              \* who runs read_files: none/direct/prepare
    rsnap,              \* local list included of read_files
    ridx,               \* loop index idx of read_files
    rprogress,          \* percents read_files reported in this call
    call_flags,         \* the include flags when read_files was called
    rentry_flag,        \* the cancel flag when read_files was called
    read_log,           \* the _read_file_safe calls made on this ScanResult
    prep_outcome,       \* outcome of the last _validate_and_prepare
    code_content,       \* code_content it assembled: the files placed in it
    asm_flags,          \* the include flags when code_content was assembled
    \* ---- CostHistoryManager
    alive,              \* the process is running
    now,                \* the wall clock, in ticks
    workload,           \* the add_entry arguments callers may pass
    ledger_file,        \* CONFIG_DIR / "cost_history.json" on disk
    history,            \* CostHistoryManager._history
    lpc,                \* position of each caller inside add_entry / clear
    lsnap,              \* local entries of each caller's _save
    lover,              \* another handle wrote the file since the caller's open
    lvalid,             \* the file held a ledger document when last opened
    saves_ok,           \* no _save of this process has failed
    adds,               \* add_entry calls made so far
    last_mut,           \* the latest mutation of _history: add_entry or clear
    spend,              \* the latest get_total_spend call and its return value
    got_entries,        \* the latest get_entries call and its return value
    \* ---- ConfigManager model cache / GeminiAPIClient.get_available_models
    cache_file,         \* CONFIG_DIR / "models_cache.json" on disk
    chour,              \* the wall clock, in hours
    configured,         \* GeminiAPIClient._configured
    available_models,   \* GeminiAPIClient._available_models
    cret,               \* the latest model-list call and how it ended
    \* ---- TokenEstimator
    text,               \* the text handed to estimate_tokens, as its lines
    estimate,           \* what estimate_tokens returned for it
    \* ---- FastFileScanner.detect_existing_docs
    project,            \* the project directory: root entries and sub-folders
    dpc,                \* position of detect_existing_docs: idle/scanning/done
    search_paths,       \* the search paths still to scan
    found_docs,         \* local found_docs: filename -> ExistingDoc
    existing_docs,      \* result.existing_docs
    \* ---- ModelRegistry / TokenEstimator / CostCalculator
    cargs,              \* the arguments the calculator is called with
    cout                \* the latest call and its return value

genVars == <<generating, cancel_generation, event_queue, wtask, wpc, total_docs,
             doc_i, completed, failed, attempt, last_error, result, glog,
             cancel_mark, genai_available>>

scanVars == <<tree, progress_callback, cancel_flag, spc, sstack, files_found,
              scan_result, progress, entry_flag>>

readVars == <<disk, has_result, tab_files, content_map, rmode, rsnap, ridx,
              rprogress, call_flags, rentry_flag, read_log, prep_outcome,
              code_content, asm_flags>>

ledgerVars == <<alive, now, workload, ledger_file, history, lpc, lsnap, lover,
                lvalid, saves_ok, adds, last_mut, spend, got_entries>>

cacheVars == <<cache_file, chour, configured, available_models, cret>>

estVars == <<text, estimate>>

docVars == <<project, dpc, search_paths, found_docs, existing_docs>>

costVars == <<cargs, cout>>

vars == <<genVars, scanVars, readVars, ledgerVars, cacheVars, estVars,
          docVars, costVars>>

nonGenVars == <<scanVars, readVars, ledgerVars, cacheVars, estVars, docVars,
                costVars>>
nonScanVars == <<genVars, readVars, ledgerVars, cacheVars, estVars, docVars,
                 costVars>>
\* read_files shares the scanner's cancel flag.
nonReadVars == <<genVars, tree, progress_callback, spc, sstack, files_found,
                 scan_result, progress, entry_flag, ledgerVars, cacheVars, estVars,
                 docVars, costVars>>
nonLedgerVars == <<genVars, scanVars, readVars, cacheVars, estVars, docVars,
                   costVars>>
\* get_available_models reads the module constant GENAI_AVAILABLE.
nonCacheVars == <<genVars, scanVars, readVars, ledgerVars, estVars, docVars,
                  costVars>>
nonEstVars == <<genVars, scanVars, readVars, ledgerVars, cacheVars, docVars,
                costVars>>
nonCostVars == <<genVars, scanVars, readVars, ledgerVars, cacheVars, estVars,
                 docVars>>
nonDocVars == <<genVars, scanVars, readVars, ledgerVars, cacheVars, estVars,
                costVars>>

(***************************************************************************)
(* Bounds and program constants                                            *)
(***************************************************************************)
MAX_RETRIES == 3
RETRY_DELAY == 2
\* Documents a selected/bundle task may loop over (ALL_DOC_TYPES has 11).
MaxDocs == 2

ErrMsgs == {"e1", "e2"}
Contents == {"c1", "c2"}
NoGenaiMsg == "google-generativeai non installato"

NoResult == [success |-> FALSE, content |-> "", error_message |-> "",
             retries |-> -1]
NoMark == [pc |-> "none", doc |-> -1, attempt |-> -1]

Ev(e, k) == [ev |-> e, n |-> k, c |-> ""]
EvOk(k, txt) == [ev |-> "ok", n |-> k, c |-> txt]
EvFail(k, err) == [ev |-> "fail", n |-> k, c |-> err]

(***************************************************************************)
(* GeminiAPIClient.generate_documentation                                  *)
(***************************************************************************)
\* for attempt in range(self.MAX_RETRIES): is there an iteration after a?
HasNextAttemptOffByOne(a) == a + 1 < MAX_RETRIES + 1
HasNextAttempt(a) == a + 1 < MAX_RETRIES

\* if attempt < self.MAX_RETRIES - 1: sleep before the retry
BackoffNeeded(a) == a < MAX_RETRIES - 1

\* delay = self.RETRY_DELAY * (attempt + 1)
BackoffDelayConstant(a) == RETRY_DELAY
BackoffDelay(a) == RETRY_DELAY * (a + 1)

\* result.retries = attempt; return result
SuccessResultOneBased(a, c) ==
    [success |-> TRUE, content |-> c, error_message |-> "", retries |-> a + 1]
SuccessResult(a, c) ==
    [success |-> TRUE, content |-> c, error_message |-> "", retries |-> a]

\* return GenerationResult(success=False, error_message=last_error,
\*                         retries=self.MAX_RETRIES)
ExhaustedResultFirstError(err) ==
    [success |-> FALSE, content |-> "", error_message |-> "e1",
     retries |-> MAX_RETRIES]
ExhaustedResult(err) ==
    [success |-> FALSE, content |-> "", error_message |-> err,
     retries |-> MAX_RETRIES]

\* Entry of generate_documentation: last_error = "", first loop iteration.
GenBegin ==
    /\ last_error' = ""
    /\ attempt' = 0
    /\ result' = NoResult
    /\ glog' = <<Ev("attempt", 0)>>
    /\ wpc' = "attempt"

\* End of one loop iteration that did not return: next iteration or the
\* "all attempts failed" return.  log is the log so far, err the last error.
LoopAdvance(log, err) ==
    IF HasNextAttempt(attempt)
    THEN /\ attempt' = attempt + 1
         /\ glog' = Append(log, Ev("attempt", attempt + 1))
         /\ wpc' = "attempt"
         /\ result' = result
    ELSE /\ attempt' = attempt
         /\ glog' = log
         /\ wpc' = "returned"
         /\ result' = ExhaustedResult(err)

\* _attempt_generation returns a successful result: generate_documentation
\* stamps retries and returns it.
AttemptSucceeds ==
    /\ UNCHANGED nonGenVars
    /\ wpc = "attempt"
    /\ genai_available
    /\ \E c \in Contents :
          /\ result' = SuccessResult(attempt, c)
          /\ glog' = Append(glog, EvOk(attempt, c))
    /\ wpc' = "returned"
    /\ UNCHANGED <<generating, cancel_generation, event_queue, wtask,
                   total_docs, doc_i, completed, failed, attempt, last_error,
                   cancel_mark, genai_available>>

\* _attempt_generation raises (the service, the prompt builder or
\* response.text), or returns success=False (GENAI_AVAILABLE is false).
AttemptFails ==
    /\ UNCHANGED nonGenVars
    /\ wpc = "attempt"
    /\ \E err \in (IF genai_available THEN ErrMsgs ELSE {NoGenaiMsg}) :
          /\ last_error' = err
          /\ IF BackoffNeeded(attempt)
             THEN /\ glog' = glog \o <<EvFail(attempt, err),
                                       Ev("sleep", BackoffDelay(attempt))>>
                  /\ wpc' = "backoff"
                  /\ UNCHANGED <<attempt, result>>
             ELSE LoopAdvance(Append(glog, EvFail(attempt, err)), err)
    /\ UNCHANGED <<generating, cancel_generation, event_queue, wtask,
                   total_docs, doc_i, completed, failed, cancel_mark,
                   genai_available>>

\* time.sleep(delay) returns.
BackoffDone ==
    /\ UNCHANGED nonGenVars
    /\ wpc = "backoff"
    /\ LoopAdvance(glog, last_error)
    /\ UNCHANGED <<generating, cancel_generation, event_queue, wtask,
                   total_docs, doc_i, completed, failed, last_error,
                   cancel_mark, genai_available>>

(***************************************************************************)
(* GeneratorTab: start handlers, workers, cancel, completion callbacks     *)
(***************************************************************************)
\* Common part of the three start handlers after _validate_and_prepare
\* succeeded: _set_generating_state(True), _cancel_generation = False,
\* executor.submit(task).
Submit(kind, n) ==
    /\ generating' = TRUE
    /\ cancel_generation' = FALSE
    /\ wtask' = kind
    /\ total_docs' = n
    /\ doc_i' = 0
    /\ completed' = 0
    /\ failed' = 0
    /\ wpc' = "queued"
    /\ cancel_mark' = NoMark
    /\ UNCHANGED <<event_queue, attempt, last_error, result, glog,
                   genai_available>>
    /\ UNCHANGED nonGenVars

\* if self._generating: ... return
StartRefusedNever(busy) == FALSE
StartRefused(busy) == busy

\* _start_single_generation: prepared is whether _validate_and_prepare
\* returned a tuple (its reading and assembly are the Prepare action of
\* SpecRead).
StartSingle ==
    \E prepared \in BOOLEAN :
        IF StartRefused(generating) \/ ~prepared
        THEN UNCHANGED vars
        ELSE Submit("single", 1)

\* _start_selected_generation with n check boxes ticked.
StartSelected ==
    \E n \in 0..MaxDocs, prepared \in BOOLEAN :
        IF n = 0 \/ StartRefused(generating) \/ ~prepared
        THEN UNCHANGED vars
        ELSE Submit("multi", n)

\* _start_bundle_generation: every document type.
StartBundle ==
    \E prepared \in BOOLEAN :
        IF StartRefused(generating) \/ ~prepared
        THEN UNCHANGED vars
        ELSE Submit("multi", MaxDocs)

\* The executor runs task(): it calls generate_documentation at once.
SingleTaskRun ==
    /\ UNCHANGED nonGenVars
    /\ wpc = "queued"
    /\ wtask = "single"
    /\ GenBegin
    /\ UNCHANGED <<generating, cancel_generation, event_queue, wtask,
                   total_docs, doc_i, completed, failed, cancel_mark,
                   genai_available>>

\* task(): generate_documentation returned; post _on_single_generation_done.
SingleTaskDone ==
    /\ UNCHANGED nonGenVars
    /\ wpc = "returned"
    /\ wtask = "single"
    /\ event_queue' = Append(event_queue, [cb |-> "single_done", res |-> result])
    /\ wpc' = "idle"
    /\ wtask' = "none"
    /\ UNCHANGED <<generating, cancel_generation, total_docs, doc_i, completed,
                   failed, attempt, last_error, result, glog, cancel_mark,
                   genai_available>>

\* selected_task / bundle_task: top of the for loop (and the code after it).
MultiTaskLoop ==
    /\ UNCHANGED nonGenVars
    /\ wtask = "multi"
    /\ wpc \in {"queued", "loop"}
    /\ IF doc_i >= total_docs
       THEN /\ event_queue' = Append(event_queue,
                 [cb |-> "bundle_complete", res |-> NoResult])
            /\ wpc' = "idle"
            /\ wtask' = "none"
            /\ UNCHANGED <<attempt, last_error, result, glog>>
       ELSE IF cancel_generation
       THEN /\ event_queue' = Append(event_queue,
                 [cb |-> "bundle_cancelled", res |-> NoResult])
            /\ wpc' = "idle"
            /\ wtask' = "none"
            /\ UNCHANGED <<attempt, last_error, result, glog>>
       ELSE /\ GenBegin
            /\ UNCHANGED <<event_queue, wtask>>
    /\ UNCHANGED <<generating, cancel_generation, total_docs, doc_i, completed,
                   failed, cancel_mark, genai_available>>

\* selected_task / bundle_task: generate_documentation returned for
\* document i; count it, post _on_generation_complete on success, then
\* sleep(1) unless it was the last document.
MultiTaskResult ==
    /\ UNCHANGED nonGenVars
    /\ wtask = "multi"
    /\ wpc = "returned"
    /\ IF result.success
       THEN /\ completed' = completed + 1
            /\ failed' = failed
            /\ event_queue' = Append(event_queue,
                 [cb |-> "generation_complete", res |-> result])
       ELSE /\ failed' = failed + 1
            /\ completed' = completed
            /\ event_queue' = event_queue
    /\ wpc' = IF doc_i < total_docs - 1 THEN "pause" ELSE "loop"
    /\ doc_i' = IF doc_i < total_docs - 1 THEN doc_i ELSE doc_i + 1
    /\ UNCHANGED <<generating, cancel_generation, wtask, total_docs, attempt,
                   last_error, result, glog, cancel_mark, genai_available>>

\* time.sleep(1) between two documents returns; next loop iteration.
MultiTaskPauseDone ==
    /\ UNCHANGED nonGenVars
    /\ wtask = "multi"
    /\ wpc = "pause"
    /\ wpc' = "loop"
    /\ doc_i' = doc_i + 1
    /\ UNCHANGED <<generating, cancel_generation, event_queue, wtask,
                   total_docs, completed, failed, attempt, last_error, result,
                   glog, cancel_mark, genai_available>>

\* _cancel_current_generation: the cancel button is packed only while
\* _generating is true (_set_generating_state).
CancelGeneration ==
    /\ UNCHANGED nonGenVars
    /\ generating
    /\ cancel_generation' = TRUE
    /\ cancel_mark' = IF cancel_generation THEN cancel_mark
                      ELSE [pc |-> wpc, doc |-> doc_i, attempt |-> attempt]
    /\ UNCHANGED <<generating, event_queue, wtask, wpc, total_docs, doc_i,
                   completed, failed, attempt, last_error, result, glog,
                   genai_available>>

\* UIEventQueue._poll runs the next queued callback on the UI thread:
\* _on_single_generation_done and _on_bundle_complete call
\* _set_generating_state(False).
ProcessEvent ==
    /\ UNCHANGED nonGenVars
    /\ event_queue # <<>>
    /\ event_queue' = Tail(event_queue)
    /\ generating' = IF Head(event_queue).cb \in
                          {"single_done", "bundle_complete", "bundle_cancelled"}
                     THEN FALSE ELSE generating
    /\ UNCHANGED <<cancel_generation, wtask, wpc, total_docs, doc_i, completed,
                   failed, attempt, last_error, result, glog, cancel_mark,
                   genai_available>>

(***************************************************************************)
(* FastFileScanner.scan                                                    *)
(*                                                                         *)
(* A name is the sequence of its characters.  A path is the sequence of    *)
(* its components.  The tree has a fixed shape,                            *)
(*     root / { n1, n2 / { n3, n4 / { n5 } } }                             *)
(* with n2, n4 directories, and the entries' names, kinds, sizes and       *)
(* failures drawn from the profiles below.  pad is the number of plain     *)
(* one-entry directories named "a" that lie between a directory and its    *)
(* parent, so that the depth limit is reached.                             *)
(***************************************************************************)
MAX_FILE_SIZE == 1000000
MAX_SCAN_DEPTH == 20
TOKEN_FACTOR == 4

\* The members of SUPPORTED_EXTENSIONS and DEFAULT_IGNORED_DIRS that the
\* names below can produce.
SUPPORTED_EXTENSIONS == {<<".", "p", "y">>, <<".", "j", "s">>, <<".", "m", "d">>}
DEFAULT_IGNORED_DIRS == {<<"n", "o", "d", "e", "_", "m", "o", "d", "u", "l", "e", "s">>,
                         <<".", "g", "i", "t">>, <<"b", "u", "i", "l", "d">>, <<".", "e", "n", "v">>}
HiddenAllowList == {<<".", "e", "n", "v", ".", "e", "x", "a", "m", "p", "l", "e">>}

UpperLetters == <<"A", "B", "C", "D", "E", "F", "G", "H", "I", "J", "K", "L", "M">>
                \o <<"N", "O", "P", "Q", "R", "S", "T", "U", "V", "W", "X", "Y", "Z">>
LowerLetters == <<"a", "b", "c", "d", "e", "f", "g", "h", "i", "j", "k", "l", "m">>
                \o <<"n", "o", "p", "q", "r", "s", "t", "u", "v", "w", "x", "y", "z">>

\* str.lower and str.upper on ASCII names.
LowerChar(ch) ==
    IF \E i \in 1..Len(UpperLetters) : UpperLetters[i] = ch
    THEN LowerLetters[CHOOSE i \in 1..Len(UpperLetters) : UpperLetters[i] = ch]
    ELSE ch
Lower(s) == [i \in 1..Len(s) |-> LowerChar(s[i])]
UpperChar(ch) ==
    IF \E i \in 1..Len(LowerLetters) : LowerLetters[i] = ch
    THEN UpperLetters[CHOOSE i \in 1..Len(LowerLetters) : LowerLetters[i] = ch]
    ELSE ch
Upper(s) == [i \in 1..Len(s) |-> UpperChar(s[i])]

\* str.startswith('.')
StartsWithDot(name) == Len(name) > 0 /\ name[1] = "."

\* pathlib's PurePath.suffix: from the last dot, unless that dot is the
\* first or the last character of the name.
Suffix(name) ==
    LET dots == {i \in 1..Len(name) : name[i] = "."}
        last == CHOOSE i \in dots : \A k \in dots : k <= i
    IN  IF dots # {} /\ 1 < last /\ last < Len(name)
        THEN SubSeq(name, last, Len(name))
        ELSE <<>>

\* Path(entry.path).relative_to(root)
RelativeTo(path, root) == SubSeq(path, Len(root) + 1, Len(path))

\* _process_entry: name.startswith('.') and name not in {'.env.example'}
SkipHidden(name) == StartsWithDot(name) /\ name \notin HiddenAllowList

\* _process_entry: name not in DEFAULT_IGNORED_DIRS (descend)
Descend(name) == name \notin DEFAULT_IGNORED_DIRS

\* _process_file: ext not in SUPPORTED_EXTENSIONS, on the lowered suffix
ExtensionOf(name) == Lower(Suffix(name))

\* _process_file: stat.st_size > MAX_FILE_SIZE
TooLargeAtCap(size) == size >= MAX_FILE_SIZE
TooLarge(size) == size > MAX_FILE_SIZE

\* _scan_dir: depth > MAX_SCAN_DEPTH
TooDeep(depth) == depth > MAX_SCAN_DEPTH

\* _scan_dir: except PermissionError / except OSError around os.scandir
CatchesPermissionOnly(failure) == failure = "perm"
CatchesListing(failure) == failure \in {"perm", "oserr"}

Root == 0
RootPath == << <<"p">> >>
PadName == <<"a">>

FileProfiles == {
    [name |-> <<"m", ".", "p", "y">>, kind |-> "file", size |-> 500, stat_ok |-> TRUE],
    [name |-> <<"A", ".", "P", "Y">>, kind |-> "file", size |-> 1000000, stat_ok |-> TRUE],
    [name |-> <<"b", ".", "j", "s">>, kind |-> "file", size |-> 1000001, stat_ok |-> TRUE],
    [name |-> <<"i", ".", "p", "n", "g">>, kind |-> "file", size |-> 500, stat_ok |-> TRUE],
    [name |-> <<".", "h", ".", "p", "y">>, kind |-> "file", size |-> 500, stat_ok |-> TRUE],
    [name |-> <<".", "e", "n", "v", ".", "e", "x", "a", "m", "p", "l", "e">>, kind |-> "file",
     size |-> 500, stat_ok |-> TRUE],
    [name |-> <<"l", ".", "p", "y">>, kind |-> "link", size |-> 500, stat_ok |-> TRUE],
    [name |-> <<"s", ".", "p", "y">>, kind |-> "file", size |-> 500, stat_ok |-> FALSE] }

NestedFileProfiles == {f \in FileProfiles :
    f.stat_ok /\ f.kind = "file" /\ ~StartsWithDot(f.name)}

DeepFileProfiles == {f \in FileProfiles :
    f.name \in {<<"m", ".", "p", "y">>, <<".", "h", ".", "p", "y">>}}

DirProfiles == {
    [name |-> <<"s", "r", "c">>, listing |-> "ok", pad |-> 0],
    [name |-> <<"s", "r", "c">>, listing |-> "perm", pad |-> 0],
    [name |-> <<"s", "r", "c">>, listing |-> "oserr", pad |-> 0],
    [name |-> <<"n", "o", "d", "e", "_", "m", "o", "d", "u", "l", "e", "s">>,
     listing |-> "ok", pad |-> 0],
    [name |-> <<".", "g", "i", "t">>, listing |-> "ok", pad |-> 0],
    [name |-> <<".", "e", "n", "v", ".", "e", "x", "a", "m", "p", "l", "e">>,
     listing |-> "ok", pad |-> 0],
    [name |-> <<"B", "u", "i", "l", "d">>, listing |-> "ok", pad |-> 0] }

DeepDirProfiles == {
    [name |-> <<"s", "r", "c">>, listing |-> "ok", pad |-> 0],
    [name |-> <<"s", "r", "c">>, listing |-> "ok", pad |-> 18],
    [name |-> <<"s", "r", "c">>, listing |-> "ok", pad |-> 19],
    [name |-> <<"s", "r", "c">>, listing |-> "perm", pad |-> 0],
    [name |-> <<"n", "o", "d", "e", "_", "m", "o", "d", "u", "l", "e", "s">>,
     listing |-> "ok", pad |-> 0] }

RootProfiles == {
    [name |-> <<"p">>, listing |-> "ok", pad |-> 0],
    [name |-> <<"p">>, listing |-> "oserr", pad |-> 0] }

Nodes == 0..5
DirNodes == {0, 2, 4}
Children(n) == CASE n = 0 -> <<1, 2>>
                 [] n = 2 -> <<3, 4>>
                 [] n = 4 -> <<5>>
                 [] OTHER -> <<>>
Parent(n) == CASE n \in {1, 2} -> 0
               [] n \in {3, 4} -> 2
               [] n = 5 -> 4
               [] OTHER -> 0

DirEntry(p) == [name |-> p.name, kind |-> "dir", size |-> 0, stat_ok |-> TRUE,
                listing |-> p.listing, pad |-> p.pad]
FileEntry(p) == [name |-> p.name, kind |-> p.kind, size |-> p.size,
                 stat_ok |-> p.stat_ok, listing |-> "ok", pad |-> 0]

Trees == {[n \in Nodes |->
              CASE n = 0 -> DirEntry(r)
                [] n = 1 -> FileEntry(f1)
                [] n = 2 -> DirEntry(d2)
                [] n = 3 -> FileEntry(f3)
                [] n = 4 -> DirEntry(d4)
                [] OTHER -> FileEntry(f5)] :
          r \in RootProfiles, f1 \in FileProfiles, d2 \in DirProfiles,
          f3 \in NestedFileProfiles, d4 \in DeepDirProfiles,
          f5 \in DeepFileProfiles}

RECURSIVE Pad(_)
Pad(k) == IF k = 0 THEN <<>> ELSE <<PadName>> \o Pad(k - 1)

RECURSIVE SumSizes(_)
SumSizes(fs) == IF fs = <<>> THEN 0
                ELSE (IF Head(fs).included THEN Head(fs).size ELSE 0)
                     + SumSizes(Tail(fs))

\* ScanResult(root_path=root_path)
EmptyScanResult == [files |-> <<>>, total_size |-> 0, estimated_tokens |-> 0]

\* FileInfo(path, relative_path, size, extension, included=True)
FileInfo(path, e) ==
    [path |-> path, relative_path |-> RelativeTo(path, RootPath),
     size |-> e.size, extension |-> ExtensionOf(e.name), included |-> TRUE]

\* _report_progress: only when a callback is set.
Report(log, pct) == IF progress_callback THEN Append(log, pct) ELSE log

Frame(n, d, path) == [node |-> n, idx |-> 0, depth |-> d, path |-> path]
Top == sstack[Len(sstack)]
Pop == SubSeq(sstack, 1, Len(sstack) - 1)
SetTop(f) == [sstack EXCEPT ![Len(sstack)] = f]

\* set_progress_callback, called before the scan starts (scan_task).
SetProgressCallback ==
    /\ spc = "idle"
    /\ ~progress_callback
    /\ progress_callback' = TRUE
    /\ UNCHANGED <<tree, entry_flag, cancel_flag, spc, sstack, files_found, scan_result,
                   progress>>
    /\ UNCHANGED nonScanVars

\* cancel(): from any thread, at any time.
Cancel ==
    /\ cancel_flag' = TRUE
    /\ UNCHANGED <<tree, entry_flag, progress_callback, spc, sstack, files_found,
                   scan_result, progress>>
    /\ UNCHANGED nonScanVars

\* self._cancel_flag.clear()
FlagOnEntryKept(flag) == flag
FlagOnEntry(flag) == FALSE

\* scan(): clear the flag, new ScanResult, report 0, call _scan_dir(root).
ScanBegin ==
    /\ spc \in {"idle", "complete", "cancelled", "raised"}
    /\ entry_flag' = cancel_flag
    /\ cancel_flag' = FlagOnEntry(cancel_flag)
    /\ scan_result' = EmptyScanResult
    /\ progress' = Report(<<>>, 0)
    /\ files_found' = <<>>
    /\ sstack' = <<Frame(Root, 0, RootPath)>>
    /\ spc' = "scanning"
    /\ UNCHANGED <<tree, progress_callback>>
    /\ UNCHANGED nonScanVars

\* An exception leaves the innermost _scan_dir: the _process_entry that
\* called it catches OSError and the caller's loop goes on; with no caller
\* it leaves scan().
Propagate ==
    /\ sstack' = Pop
    /\ spc' = IF Len(sstack) = 1 THEN "raised" ELSE spc

\* _scan_dir up to the first entry: cancel check, depth check, os.scandir.
ScanDirEnter ==
    /\ spc = "scanning"
    /\ sstack # <<>>
    /\ Top.idx = 0
    /\ IF cancel_flag \/ TooDeep(Top.depth)
       THEN sstack' = Pop /\ spc' = spc
       ELSE IF tree[Top.node].listing # "ok"
       THEN IF CatchesListing(tree[Top.node].listing)
            THEN sstack' = Pop /\ spc' = spc
            ELSE Propagate
       ELSE sstack' = SetTop([Top EXCEPT !.idx = 1]) /\ spc' = spc
    /\ UNCHANGED <<tree, entry_flag, progress_callback, cancel_flag, files_found,
                   scan_result, progress>>
    /\ UNCHANGED nonScanVars

\* _process_file
ProcessFile(path, e) ==
    IF ExtensionOf(e.name) \notin SUPPORTED_EXTENSIONS THEN files_found
    ELSE IF ~e.stat_ok THEN files_found
    ELSE IF TooLarge(e.size) THEN files_found
    ELSE Append(files_found, FileInfo(path, e))

\* One iteration of the for loop of _scan_dir: cancel check, then
\* _process_entry on the next entry (or the end of the listing).
ScanEntry ==
    /\ spc = "scanning"
    /\ sstack # <<>>
    /\ Top.idx > 0
    /\ LET kids == Children(Top.node)
           c == kids[Top.idx]
           e == tree[c]
           next == SetTop([Top EXCEPT !.idx = Top.idx + 1])
       IN  IF Top.idx > Len(kids) \/ cancel_flag
           THEN sstack' = Pop /\ files_found' = files_found
           ELSE IF SkipHidden(e.name)
           THEN sstack' = next /\ files_found' = files_found
           ELSE IF e.kind = "dir"
           THEN /\ files_found' = files_found
                /\ sstack' = IF Descend(e.name)
                             THEN Append(next,
                                    Frame(c, Top.depth + e.pad + 1,
                                          Top.path \o Pad(e.pad) \o <<e.name>>))
                             ELSE next
           ELSE IF e.kind = "file"
           THEN /\ sstack' = next
                /\ files_found' = ProcessFile(Append(Top.path, e.name), e)
           ELSE sstack' = next /\ files_found' = files_found
    /\ UNCHANGED <<tree, entry_flag, progress_callback, cancel_flag, spc, scan_result,
                   progress>>
    /\ UNCHANGED nonScanVars

\* scan() after _scan_dir returned: a set flag returns the empty result,
\* otherwise files, total_size, estimated_tokens are filled and 100 reported.
ScanFinish ==
    /\ spc = "scanning"
    /\ sstack = <<>>
    /\ IF cancel_flag
       THEN /\ spc' = "cancelled"
            /\ UNCHANGED <<scan_result, progress>>
       ELSE /\ spc' = "complete"
            /\ scan_result' = [files |-> files_found,
                               total_size |-> SumSizes(files_found),
                               estimated_tokens |->
                                   SumSizes(files_found) \div TOKEN_FACTOR]
            /\ progress' = Report(progress, 100)
    /\ UNCHANGED <<tree, entry_flag, progress_callback, cancel_flag, sstack, files_found>>
    /\ UNCHANGED nonScanVars

(***************************************************************************)
(* FastFileScanner.read_files, the file tree's include flags and           *)
(* GeneratorTab._validate_and_prepare                                      *)
(*                                                                         *)
(* The scanned files are 1..MaxFiles, a file's number standing for its     *)
(* relative_path.  disk[f] is what the bytes of file f are: valid UTF-8    *)
(* text, text in a legacy single-byte encoding, nothing (an empty file),   *)
(* or unreadable (OSError).                                                *)
(***************************************************************************)
MaxFiles == 2
Files == 1..MaxFiles
DiskKinds == {"utf8", "legacy", "empty", "oserror"}
None == "None"

\* path.read_text(encoding=...): the text, or the exception raised.
ReadText(f, encoding) ==
    CASE disk[f] = "oserror" -> "OSError"
      [] disk[f] = "empty" -> ""
      [] disk[f] = "utf8" -> "text"
      [] disk[f] = "legacy" /\ encoding = "utf-8" -> "UnicodeDecodeError"
      [] OTHER -> "legacy text"

\* _read_file_safe: utf-8, then latin-1, then cp1252.
RECURSIVE TryEncodings(_, _)
TryEncodings(f, encodings) ==
    IF encodings = <<>> THEN None
    ELSE LET r == ReadText(f, Head(encodings)) IN
         IF r = "UnicodeDecodeError" THEN TryEncodings(f, Tail(encodings))
         ELSE IF r = "OSError" THEN None
         ELSE r
ReadFileSafe(f) == TryEncodings(f, <<"utf-8", "latin-1", "cp1252">>)

\* if content: (None and the empty string are falsy)
Truthy(content) == content # None /\ content # ""

\* included = [f for f in result.files if f.included]
EveryFile(files) == [i \in 1..Len(files) |-> files[i].relative_path]
RECURSIVE IncludedOf(_)
IncludedOf(files) ==
    IF files = <<>> THEN <<>>
    ELSE (IF Head(files).included THEN <<Head(files).relative_path>> ELSE <<>>)
         \o IncludedOf(Tail(files))

\* OptimizedFileTree.get_included_files, as the set of relative paths.
IncludedPaths(files) ==
    {files[i].relative_path : i \in {k \in 1..Len(files) : files[k].included}}

\* SetupTab.read_file_contents: f.included = any(inc.relative_path ==
\* f.relative_path for inc in file_tree.get_included_files())
SyncIncluded(files) ==
    [i \in 1..Len(files) |->
        [files[i] EXCEPT !.included =
            files[i].relative_path \in IncludedPaths(files)]]

\* _validate_and_prepare: the files whose text goes into code_content
\* (for path, content in content_map.items(): if path in included_paths).
AssembleUnfiltered(cmap, files) == {f \in Files : cmap[f] # None}
Assemble(cmap, files) ==
    {f \in Files : cmap[f] # None /\ f \in IncludedPaths(files)}

FlagsOf(files) ==
    [f \in Files |-> \E i \in 1..Len(files) :
                        files[i].relative_path = f /\ files[i].included]

\* _on_scan_complete after a scan of the project: a new ScanResult (every
\* file included, empty content_map) replaces the tab's and is loaded into
\* the file tree; a cancelled scan delivers an empty one.  scan() cleared
\* the cancel flag on entry; a cancel() during the scan set it again.
ScanCompleted ==
    /\ rmode = "none"
    /\ \E cancelled \in BOOLEAN :
          /\ cancel_flag' = cancelled
          /\ tab_files' = IF cancelled THEN <<>>
                          ELSE [i \in Files |->
                                  [relative_path |-> i, included |-> TRUE]]
    /\ has_result' = TRUE
    /\ content_map' = [f \in Files |-> None]
    /\ read_log' = {}
    /\ UNCHANGED <<disk, rentry_flag, rmode, rsnap, ridx, rprogress, call_flags,
                   prep_outcome, code_content, asm_flags>>
    /\ UNCHANGED nonReadVars

\* OptimizedFileTree._on_double_click on file i.  The UI thread is busy
\* while _validate_and_prepare runs.
ToggleFile ==
    /\ rmode # "prepare"
    /\ \E i \in 1..Len(tab_files) :
          tab_files' = [tab_files EXCEPT ![i].included = ~tab_files[i].included]
    /\ UNCHANGED <<disk, rentry_flag, has_result, content_map, rmode, rsnap, ridx,
                   rprogress, call_flags, read_log, prep_outcome, code_content,
                   asm_flags, cancel_flag>>
    /\ UNCHANGED nonReadVars

\* OptimizedFileTree._select_all / _deselect_all
SetAllFiles ==
    /\ rmode # "prepare"
    /\ tab_files # <<>>
    /\ \E b \in BOOLEAN :
          tab_files' = [i \in 1..Len(tab_files) |->
                           [tab_files[i] EXCEPT !.included = b]]
    /\ UNCHANGED <<disk, rentry_flag, has_result, content_map, rmode, rsnap, ridx,
                   rprogress, call_flags, read_log, prep_outcome, code_content,
                   asm_flags, cancel_flag>>
    /\ UNCHANGED nonReadVars

\* cancel() while the tab holds a result.
CancelRead ==
    /\ has_result
    /\ cancel_flag' = TRUE
    /\ UNCHANGED readVars
    /\ UNCHANGED nonReadVars

\* Entry of read_files(result): the list of included files is taken once.
ReadEnter(files) ==
    /\ rsnap' = IncludedOf(files)
    /\ ridx' = 0
    /\ rprogress' = <<>>
    /\ call_flags' = FlagsOf(files)
    /\ rentry_flag' = cancel_flag

\* scanner.read_files(result) called directly, off the UI thread.
ReadFilesCall ==
    /\ rmode = "none"
    /\ has_result
    /\ rmode' = "direct"
    /\ ReadEnter(tab_files)
    /\ UNCHANGED <<disk, has_result, tab_files, content_map, read_log,
                   prep_outcome, code_content, asm_flags, cancel_flag>>
    /\ UNCHANGED nonReadVars

\* _validate_and_prepare up to the first iteration of read_files: the early
\* returns, then SetupTab.read_file_contents.
PrepareBegin ==
    /\ rmode = "none"
    /\ \E connected \in BOOLEAN :
          IF ~connected \/ ~has_result
          THEN /\ prep_outcome' = "none"
               /\ UNCHANGED <<tab_files, rmode, rsnap, ridx, rprogress,
                              call_flags, rentry_flag, read_log>>
          ELSE /\ tab_files' = SyncIncluded(tab_files)
               /\ rmode' = "prepare"
               /\ ReadEnter(SyncIncluded(tab_files))
               /\ prep_outcome' = "reading"
    /\ code_content' = {}
    /\ asm_flags' = [f \in Files |-> FALSE]
    /\ UNCHANGED <<disk, has_result, content_map, read_log, cancel_flag>>
    /\ UNCHANGED nonReadVars

\* One iteration of the loop of read_files: the cancel check, the read,
\* the store, the progress report.
ReadStep ==
    /\ rmode # "none"
    /\ ridx >= 0
    /\ ridx < Len(rsnap)
    /\ IF cancel_flag
       THEN /\ ridx' = -1
            /\ UNCHANGED <<content_map, rprogress, read_log>>
       ELSE LET f == rsnap[ridx + 1]
                content == ReadFileSafe(f)
            IN  /\ content_map' = IF Truthy(content)
                                  THEN [content_map EXCEPT ![f] = content]
                                  ELSE content_map
                /\ read_log' = read_log \cup
                                 {[path |-> f, flag |-> call_flags[f],
                                   stored |-> Truthy(content)]}
                /\ rprogress' = IF ridx % 5 = 0
                                THEN Append(rprogress,
                                            (ridx * 100) \div Len(rsnap))
                                ELSE rprogress
                /\ ridx' = ridx + 1
    /\ UNCHANGED <<disk, rentry_flag, has_result, tab_files, rmode, rsnap, call_flags,
                   prep_outcome, code_content, asm_flags, cancel_flag>>
    /\ UNCHANGED nonReadVars

\* read_files after its loop (completed or broken out of): report 100 and
\* return.  Under _validate_and_prepare the rest of that handler follows:
\* an empty content_map or an empty code_content returns None.
ReadReturn ==
    /\ rmode # "none"
    /\ ridx = -1 \/ ridx = Len(rsnap)
    /\ rprogress' = Append(rprogress, 100)
    /\ rmode' = "none"
    /\ IF rmode = "prepare"
       THEN IF \A f \in Files : content_map[f] = None
            THEN /\ prep_outcome' = "none"
                 /\ UNCHANGED <<code_content, asm_flags>>
            ELSE /\ code_content' = Assemble(content_map, tab_files)
                 /\ asm_flags' = FlagsOf(tab_files)
                 /\ prep_outcome' = IF Assemble(content_map, tab_files) = {}
                                THEN "none" ELSE "ok"
       ELSE UNCHANGED <<prep_outcome, code_content, asm_flags>>
    /\ rsnap' = <<>>
    /\ ridx' = 0
    /\ call_flags' = [f \in Files |-> FALSE]
    /\ UNCHANGED <<disk, rentry_flag, has_result, tab_files, content_map, read_log,
                   cancel_flag>>
    /\ UNCHANGED nonReadVars

(***************************************************************************)
(* CostHistoryManager                                                      *)
(*                                                                         *)
(* Costs are whole cents.  A time is a whole number of ticks; an ISO       *)
(* timestamp string is the sequence of its fields, the fraction left out   *)
(* when it is zero, and strings compare lexicographically.  The ledger     *)
(* file is a record of what a reader finds in it.  Two callers may be      *)
(* inside add_entry / clear on the one instance at a time.                 *)
(***************************************************************************)
MAX_ENTRIES == 1000
\* add_entry calls over the life of the ledger file.
MaxAdds == 2
\* The clock runs from ClockStart to MaxClock.
MaxClock == 5
\* Entries of the histories get_total_spend is tried on.
MaxHistory == 2
\* Largest window get_total_spend is asked for, in days.
MaxDays == 2
\* Largest limit get_entries is asked for.
MaxLimit == 3
TicksPerDay == 2
ClockStart == MaxDays * TicksPerDay

\* Optional[int] / Optional[float] holding None
Absent == -1
Currencies == {"EUR", "USD"}
Threads == {1, 2}

\* datetime.isoformat(): the fraction is printed only when it is not zero
Iso(t) == IF t % TicksPerDay = 0
          THEN <<t \div TicksPerDay>>
          ELSE <<t \div TicksPerDay, t % TicksPerDay>>

\* str >= str
RECURSIVE StrGE(_, _)
StrGE(a, b) ==
    IF b = <<>> THEN TRUE
    ELSE IF a = <<>> THEN FALSE
    ELSE IF Head(a) > Head(b) THEN TRUE
    ELSE IF Head(a) < Head(b) THEN FALSE
    ELSE StrGE(Tail(a), Tail(b))

\* The arguments of one add_entry call: the estimate's total_tokens,
\* total_cost and currency, then actual_tokens and actual_cost.
CallProfiles ==
    { [total_tokens |-> 100, total_cost |-> 100, currency |-> "EUR",
       actual_tokens |-> Absent, actual_cost |-> Absent],
      [total_tokens |-> 100, total_cost |-> 100, currency |-> "EUR",
       actual_tokens |-> 50, actual_cost |-> 30],
      [total_tokens |-> 100, total_cost |-> 100, currency |-> "USD",
       actual_tokens |-> 0, actual_cost |-> 0],
      [total_tokens |-> 0, total_cost |-> 0, currency |-> "USD",
       actual_tokens |-> 50, actual_cost |-> Absent] }

\* if actual_tokens and estimate.total_tokens > 0:
\*     accuracy_ratio = actual_tokens / estimate.total_tokens
\* The ratio is the pair <<numerator, denominator>>; <<>> is None.
AccuracyRatio(actual_tokens, total_tokens) ==
    IF actual_tokens # Absent /\ actual_tokens # 0 /\ total_tokens > 0
    THEN <<actual_tokens, total_tokens>>
    ELSE <<>>

\* entry = CostHistoryEntry(...), from an estimate stamped at time t
MakeEntry(w, t) ==
    [timestamp |-> Iso(t),
     estimated_tokens |-> w.total_tokens,
     actual_tokens |-> w.actual_tokens,
     estimated_cost |-> w.total_cost,
     actual_cost |-> w.actual_cost,
     currency |-> w.currency,
     accuracy_ratio |-> AccuracyRatio(w.actual_tokens, w.total_tokens)]

\* The i-th entry of a ledger file written by earlier sessions.
OldEntry(i) ==
    [timestamp |-> Iso(1),
     estimated_tokens |-> i,
     actual_tokens |-> Absent,
     estimated_cost |-> 100,
     actual_cost |-> Absent,
     currency |-> "EUR",
     accuracy_ratio |-> <<>>]

\* json.dump({"entries": [...]}, f) completed
LedgerDoc(entries) == [kind |-> "doc", entries |-> entries]
\* Anything else found at the path.
NoDoc(kind) == [kind |-> kind, entries |-> <<>>]
OldDoc(n) == LedgerDoc([i \in 1..n |-> OldEntry(i)])

SmallLedgerFiles ==
    { NoDoc("missing"), NoDoc("unreadable"), NoDoc("notjson"),
      NoDoc("badshape"), OldDoc(0), OldDoc(1),
      LedgerDoc(<<MakeEntry(CHOOSE w \in CallProfiles :
                               w.currency = "EUR" /\ w.actual_cost = Absent,
                            ClockStart - 1)>>) }
FullLedgerFiles == {OldDoc(MAX_ENTRIES - 1), OldDoc(MAX_ENTRIES)}

\* self._history[-n:]
LastN(s, n) ==
    IF Len(s) <= n THEN s ELSE SubSeq(s, Len(s) - n + 1, Len(s))

\* _load: a missing file leaves the history empty; every exception of
\* open, json.load, data.get and from_dict is caught.
Load(file) ==
    CASE file.kind = "missing" -> <<>>
      [] file.kind = "unreadable" -> <<>>
      [] file.kind \in {"notjson", "truncated"} -> <<>>
      [] file.kind = "badshape" -> <<>>
      [] OTHER -> file.entries

\* get_total_spend: the loop over self._history
RECURSIVE TotalSpendAnyCurrency(_, _, _)
TotalSpendAnyCurrency(h, currency, cutoff) ==
    IF h = <<>> THEN 0
    ELSE LET entry == Head(h) IN
         (IF StrGE(entry.timestamp, cutoff)
          THEN IF entry.actual_cost # Absent
               THEN entry.actual_cost
               ELSE entry.estimated_cost
          ELSE 0) + TotalSpendAnyCurrency(Tail(h), currency, cutoff)
RECURSIVE TotalSpend(_, _, _)
TotalSpend(h, currency, cutoff) ==
    IF h = <<>> THEN 0
    ELSE LET entry == Head(h) IN
         (IF StrGE(entry.timestamp, cutoff) /\ entry.currency = currency
          THEN IF entry.actual_cost # Absent
               THEN entry.actual_cost
               ELSE entry.estimated_cost
          ELSE 0) + TotalSpend(Tail(h), currency, cutoff)
\* cutoff = (datetime.now() - timedelta(days=days)).isoformat()
Cutoff(days) == Iso(now - days * TicksPerDay)

NoSpend == [currency |-> "", days |-> 0, at |-> 0, total |-> 0]
NoMut == [op |-> "none", entry |-> OldEntry(0)]

\* except Exception as e: logger.error(...) around the whole body of _save
SaveCatchesNothing(failure) == FALSE
SaveCatches(failure) == failure \in {"open", "write"}

\* The caller t leaves _save after the failure: swallowed, or raised.
SaveFailed(t, failure) ==
    /\ lpc' = [lpc EXCEPT ![t] = IF SaveCatches(failure)
                                 THEN "idle" ELSE "raised"]
    /\ saves_ok' = FALSE

\* add_entry up to and including self._history.append(entry)
AddEntryCall ==
    /\ UNCHANGED nonLedgerVars
    /\ alive
    /\ adds < MaxAdds
    /\ \E t \in Threads, w \in workload :
          /\ lpc[t] = "idle"
          /\ history' = Append(history, MakeEntry(w, now))
          /\ last_mut' = [op |-> "add", entry |-> MakeEntry(w, now)]
          /\ lpc' = [lpc EXCEPT ![t] = "save"]
    /\ adds' = adds + 1
    /\ UNCHANGED <<alive, now, workload, ledger_file, lsnap, lover, lvalid,
                   saves_ok, spend, got_entries>>

\* clear up to and including self._history = []
ClearCall ==
    /\ UNCHANGED nonLedgerVars
    /\ alive
    /\ \E t \in Threads :
          /\ lpc[t] = "idle"
          /\ lpc' = [lpc EXCEPT ![t] = "save"]
    /\ history' = <<>>
    /\ last_mut' = [op |-> "clear", entry |-> OldEntry(0)]
    /\ UNCHANGED <<alive, now, workload, ledger_file, lsnap, lover, lvalid,
                   saves_ok, adds, spend, got_entries>>

\* _save: entries = self._history[-self.MAX_ENTRIES:]
SaveSnapshot ==
    /\ UNCHANGED nonLedgerVars
    /\ alive
    /\ \E t \in Threads :
          /\ lpc[t] = "save"
          /\ lsnap' = [lsnap EXCEPT ![t] = LastN(history, MAX_ENTRIES)]
          /\ lpc' = [lpc EXCEPT ![t] = "snap"]
    /\ UNCHANGED <<alive, now, workload, ledger_file, history, lover, lvalid,
                   saves_ok, adds, last_mut, spend, got_entries>>

\* _save: CONFIG_DIR.mkdir and open(self.HISTORY_FILE, 'w'): the file is
\* truncated, or the call fails and the file is as it was.
SaveOpen ==
    /\ UNCHANGED nonLedgerVars
    /\ alive
    /\ \E t \in Threads :
          /\ lpc[t] = "snap"
          /\ \/ /\ ledger_file' = NoDoc("truncated")
                /\ lvalid' = (ledger_file.kind = "doc")
                /\ lover' = [lover EXCEPT ![t] = FALSE]
                /\ lpc' = [lpc EXCEPT ![t] = "open"]
                /\ UNCHANGED saves_ok
             \/ /\ SaveFailed(t, "open")
                /\ UNCHANGED <<ledger_file, lvalid, lover>>
          /\ lsnap' = IF lpc'[t] = "open" THEN lsnap
                      ELSE [lsnap EXCEPT ![t] = <<>>]
    /\ UNCHANGED <<alive, now, workload, history, adds, last_mut, spend, got_entries>>

\* _save: json.dump and the close of the file.  The document lands at
\* offset 0 of whatever the file holds by now: if another handle has put a
\* longer document there meanwhile, its tail stays behind this one.
SaveWrite ==
    /\ UNCHANGED nonLedgerVars
    /\ alive
    /\ \E t \in Threads :
          /\ lpc[t] = "open"
          /\ \/ /\ ledger_file' =
                     IF /\ lover[t]
                        /\ ledger_file.kind = "doc"
                        /\ Len(ledger_file.entries) > Len(lsnap[t])
                     THEN NoDoc("notjson")
                     ELSE LedgerDoc(lsnap[t])
                /\ lover' = [u \in Threads |-> u # t /\ lpc[u] = "open"]
                /\ lpc' = [lpc EXCEPT ![t] = "idle"]
                /\ UNCHANGED saves_ok
             \/ /\ SaveFailed(t, "write")
                /\ UNCHANGED <<ledger_file, lover>>
          /\ lsnap' = [lsnap EXCEPT ![t] = <<>>]
    /\ UNCHANGED <<alive, now, workload, history, lvalid, adds, last_mut,
                   spend, got_entries>>

\* get_total_spend(currency, days), called from the statistics panels.
GetTotalSpend ==
    /\ UNCHANGED nonLedgerVars
    /\ alive
    /\ \E currency \in Currencies, days \in 1..MaxDays :
          spend' = [currency |-> currency, days |-> days, at |-> now,
                    total |-> TotalSpend(history, currency, Cutoff(days))]
    /\ UNCHANGED <<alive, now, workload, ledger_file, history, lpc, lsnap,
                   lover, lvalid, saves_ok, adds, last_mut, got_entries>>

\* get_entries(limit): self._history[-limit:], where -0 is 0
SliceStart(n, limit) ==
    IF limit = 0 THEN 0
    ELSE IF n <= limit THEN 0 ELSE n - limit

GetEntries(h, limit) == SubSeq(h, SliceStart(Len(h), limit) + 1, Len(h))

NoEntries == [limit |-> Absent, ret |-> <<>>]

\* get_entries(limit), called from the history window.
GetEntriesCall ==
    /\ UNCHANGED nonLedgerVars
    /\ alive
    /\ \E limit \in 0..MaxLimit :
          got_entries' = [limit |-> limit, ret |-> GetEntries(history, limit)]
    /\ UNCHANGED <<alive, now, workload, ledger_file, history, lpc, lsnap,
                   lover, lvalid, saves_ok, adds, last_mut, spend>>

\* Time passes.
ClockTick ==
    /\ UNCHANGED nonLedgerVars
    /\ now < MaxClock
    /\ now' = now + 1
    /\ UNCHANGED <<alive, workload, ledger_file, history, lpc, lsnap, lover,
                   lvalid, saves_ok, adds, last_mut, spend, got_entries>>

\* The process dies; the file stays as the last system call left it.
Crash ==
    /\ UNCHANGED nonLedgerVars
    /\ alive
    /\ alive' = FALSE
    /\ UNCHANGED <<now, workload, ledger_file, history, lpc, lsnap, lover,
                   lvalid, saves_ok, adds, last_mut, spend, got_entries>>

\* The application is started again: CostHistoryManager.__init__
Restart ==
    /\ UNCHANGED nonLedgerVars
    /\ ~alive
    /\ alive' = TRUE
    /\ history' = Load(ledger_file)
    /\ lpc' = [t \in Threads |-> "idle"]
    /\ lsnap' = [t \in Threads |-> <<>>]
    /\ lover' = [t \in Threads |-> FALSE]
    /\ saves_ok' = TRUE
    /\ last_mut' = NoMut
    /\ spend' = NoSpend
    /\ got_entries' = NoEntries
    /\ UNCHANGED <<now, workload, ledger_file, lvalid, adds>>

(***************************************************************************)
(* ConfigManager.get_cached_models / set_cached_models and                 *)
(* GeminiAPIClient.get_available_models                                    *)
(*                                                                         *)
(* The cache file is a record of what a reader finds in it; a timestamp    *)
(* that parses is the hour it denotes.                                     *)
(***************************************************************************)
MODELS_CACHE_HOURS == 24
\* The clock runs from 0 to MaxHours.
MaxHours == 25

\* What genai.list_models() may answer: name and whether generateContent
\* is among the supported generation methods.
RemoteAnswers ==
    { <<[name |-> "models/embedding-001", generative |-> FALSE]>>,
      <<[name |-> "models/gemini-1.5-flash", generative |-> TRUE],
        [name |-> "models/embedding-001", generative |-> FALSE],
        [name |-> "models/gemini-2.5-pro", generative |-> TRUE]>> }

\* sort_key: the index of the first priority prefix found in the name, else
\* len(priority).  The names above have different indexes, so the name
\* never breaks a tie.
SortKey(name) ==
    CASE name = "models/gemini-2.5-pro" -> 0
      [] name = "models/gemini-1.5-flash" -> 3
      [] OTHER -> 4

\* for model in genai.list_models(): if 'generateContent' in ...: append
RECURSIVE Generative(_)
Generative(answer) ==
    IF answer = <<>> THEN <<>>
    ELSE IF Head(answer).generative
         THEN <<Head(answer).name>> \o Generative(Tail(answer))
         ELSE Generative(Tail(answer))

\* list.sort(key=sort_key)
RECURSIVE Insert(_, _)
Insert(name, sorted) ==
    IF sorted = <<>> THEN <<name>>
    ELSE IF SortKey(name) < SortKey(Head(sorted))
         THEN <<name>> \o sorted
         ELSE <<Head(sorted)>> \o Insert(name, Tail(sorted))
RECURSIVE SortModels(_)
SortModels(names) ==
    IF names = <<>> THEN <<>>
    ELSE Insert(names[Len(names)], SortModels(SubSeq(names, 1, Len(names) - 1)))

\* json.dumps({'timestamp': ..., 'models': models}) written completely
CacheDoc(hour, models) ==
    [kind |-> "doc", timestamp |-> hour, models |-> models]
\* Anything else found at the path.
NoCache(kind) == [kind |-> kind, timestamp |-> 0, models |-> <<>>]

CacheFiles ==
    { NoCache("missing"), NoCache("unreadable"), NoCache("notjson"),
      NoCache("list"), NoCache("numts"), NoCache("badts"),
      [kind |-> "nots", timestamp |-> 0,
       models |-> <<"models/gemini-2.5-pro">>],
      CacheDoc(0, <<"models/gemini-2.5-pro">>) }

\* get_cached_models: the list, None, or an exception that is not among
\* (json.JSONDecodeError, ValueError, OSError).
CacheHit(models) == [raised |-> FALSE, none |-> FALSE, models |-> models]
CacheNone == [raised |-> FALSE, none |-> TRUE, models |-> <<>>]
CacheRaised == [raised |-> TRUE, none |-> TRUE, models |-> <<>>]
GetCachedModels(file, hour) ==
    CASE file.kind = "missing" -> CacheNone
      [] file.kind = "unreadable" -> CacheNone
      [] file.kind \in {"notjson", "truncated"} -> CacheNone
      [] file.kind = "list" -> CacheRaised
      [] file.kind = "numts" -> CacheRaised
      [] file.kind = "badts" -> CacheNone
      [] file.kind = "nots" -> CacheNone
      [] OTHER -> IF hour - file.timestamp < MODELS_CACHE_HOURS
                  THEN CacheHit(file.models)
                  ELSE CacheNone

\* set_cached_models: write_text replaces the file, or fails with an
\* OSError that is logged; a failure after the open leaves it truncated.
SetCachedModels(file, hour, models, outcome) ==
    CASE outcome = "ok" -> CacheDoc(hour, models)
      [] outcome = "open" -> file
      [] OTHER -> NoCache("truncated")

NoCall == [op |-> "none", force |-> FALSE, kind |-> "missing",
           fresh |-> FALSE, cached |-> <<>>,
           able |-> FALSE, invoked |-> FALSE, raised |-> FALSE,
           value |-> <<>>]
\* The call being made: what the cache file holds for it.
CallOf(op, force) ==
    [op |-> op, force |-> force, kind |-> cache_file.kind,
     fresh |-> /\ cache_file.kind = "doc"
               /\ chour - cache_file.timestamp < MODELS_CACHE_HOURS,
     cached |-> cache_file.models,
     able |-> configured /\ genai_available,
     invoked |-> FALSE, raised |-> FALSE, value |-> <<>>]

\* GeminiAPIClient.configure
Configure ==
    /\ UNCHANGED nonCacheVars
    /\ genai_available
    /\ \E accepted \in BOOLEAN :
          configured' = IF accepted THEN TRUE ELSE configured
    /\ UNCHANGED <<cache_file, chour, available_models, cret>>

\* GeneratorTab._load_models_from_cache
LoadModelsFromCache ==
    /\ UNCHANGED nonCacheVars
    /\ LET got == GetCachedModels(cache_file, chour) IN
       cret' = [CallOf("load", FALSE) EXCEPT !.raised = got.raised,
                                              !.value = got.models]
    /\ UNCHANGED <<cache_file, chour, configured, available_models>>

\* GeminiAPIClient.get_available_models(force_refresh)
GetAvailableModels ==
    /\ UNCHANGED nonCacheVars
    /\ \E force \in BOOLEAN :
       LET got == IF force THEN CacheNone
                  ELSE GetCachedModels(cache_file, chour)
           call == CallOf("get", force)
       IN
       IF got.raised
       THEN /\ cret' = [call EXCEPT !.raised = TRUE]
            /\ UNCHANGED <<cache_file, available_models>>
       ELSE IF ~got.none /\ got.models # <<>>
       THEN /\ available_models' = got.models
            /\ cret' = [call EXCEPT !.value = got.models]
            /\ UNCHANGED cache_file
       ELSE IF ~configured \/ ~genai_available
       THEN /\ cret' = call
            /\ UNCHANGED <<cache_file, available_models>>
       ELSE \/ /\ available_models' \in
                     {<<>>} \cup {Generative(SubSeq(a, 1, n)) :
                                     a \in RemoteAnswers, n \in 0..1}
               /\ cret' = [call EXCEPT !.invoked = TRUE]
               /\ UNCHANGED cache_file
            \/ \E answer \in RemoteAnswers,
                  outcome \in {"ok", "open", "write"} :
                  /\ available_models' = SortModels(Generative(answer))
                  /\ cache_file' = SetCachedModels(cache_file, chour,
                                                   available_models', outcome)
                  /\ cret' = [call EXCEPT !.invoked = TRUE,
                                          !.value = available_models']
    /\ UNCHANGED <<chour, configured>>

\* Time passes.
HourPasses ==
    /\ UNCHANGED nonCacheVars
    /\ chour < MaxHours
    /\ chour' = chour + 1
    /\ UNCHANGED <<cache_file, configured, available_models, cret>>

(***************************************************************************)
(* TokenEstimator                                                          *)
(*                                                                         *)
(* A text is the sequence of its lines, joined by newlines; <<>> is the    *)
(* empty string.  The lines come from a catalogue, each with its length    *)
(* and the patterns of detect_content_type it matches.  A ratio is kept in *)
(* tenths, so that len / 3.8 is 10 * len / 38.                             *)
(***************************************************************************)
\* Lines of the texts estimate_tokens is tried on.
MaxLines == 3

Lines == {"def f(x):", "import os", "# Title", "* item", "[a](b)",
          "Sono che della", "che cosa", "{}", "[1, 2, 3]", "{a", "hello"}

\* len(line)
LineLen(line) ==
    CASE line \in {"def f(x):", "import os", "[1, 2, 3]"} -> 9
      [] line = "# Title" -> 7
      [] line \in {"* item", "[a](b)"} -> 6
      [] line = "Sono che della" -> 14
      [] line = "che cosa" -> 8
      [] line \in {"{}", "{a"} -> 2
      [] OTHER -> 5

\* len(text)
RECURSIVE TextLen(_)
TextLen(t) ==
    IF t = <<>> THEN 0
    ELSE IF Len(t) = 1 THEN LineLen(t[1])
    ELSE LineLen(Head(t)) + 1 + TextLen(Tail(t))

\* The code_patterns re.search finds in the line.
CodePatterns(line) ==
    CASE line = "def f(x):" -> {"def"}
      [] line = "import os" -> {"import"}
      [] OTHER -> {}
\* The md_patterns re.search (re.MULTILINE) finds in the line.
MdPatterns(line) ==
    CASE line = "# Title" -> {"heading"}
      [] line = "* item" -> {"bullet"}
      [] line = "[a](b)" -> {"link"}
      [] OTHER -> {}
\* The italian_words found as whole words in line.lower().
ItalianWords(line) ==
    CASE line = "Sono che della" -> {"sono", "che", "della"}
      [] line = "che cosa" -> {"che"}
      [] OTHER -> {}

\* code_matches = sum(1 for p in code_patterns if re.search(p, sample))
CodeMatches(t) == Cardinality(UNION {CodePatterns(t[i]) : i \in 1..Len(t)})
\* md_matches = sum(1 for p in md_patterns if re.search(p, sample, ...))
MdMatches(t) == Cardinality(UNION {MdPatterns(t[i]) : i \in 1..Len(t)})
\* italian_count = sum(1 for w in italian_words if re.search(...))
ItalianCount(t) == Cardinality(UNION {ItalianWords(t[i]) : i \in 1..Len(t)})

\* stripped.startswith('{') or stripped.startswith('[')
StartsLikeJson(t) == t[1] \in {"{}", "[1, 2, 3]", "{a", "[a](b)"}
\* json.loads(text) returns: the whole text is one JSON document
JsonLoads(t) == Len(t) = 1 /\ t[1] \in {"{}", "[1, 2, 3]"}

\* detect_content_type
DetectContentType(t) ==
    IF t = <<>> THEN "mixed"
    ELSE IF StartsLikeJson(t) /\ JsonLoads(t) THEN "json"
    ELSE IF CodeMatches(t) >= 2 THEN "code"
    ELSE IF MdMatches(t) >= 2 THEN "markdown"
    ELSE IF ItalianCount(t) >= 3 THEN "prose_it"
    ELSE "mixed"

\* DEFAULT_RATIO, in tenths
DEFAULT_RATIO == 40
\* CHAR_RATIOS.get(content_type, cls.DEFAULT_RATIO), in tenths
CharRatioDefault(content_type) == DEFAULT_RATIO
CharRatio(content_type) ==
    CASE content_type = "code" -> 38
      [] content_type = "prose_en" -> 40
      [] content_type = "prose_it" -> 42
      [] content_type = "mixed" -> 40
      [] content_type = "json" -> 35
      [] content_type = "markdown" -> 40
      [] OTHER -> DEFAULT_RATIO

\* estimate_tokens(text) with content_type None
EstimateTokens(t) ==
    IF t = <<>> THEN 0
    ELSE (10 * TextLen(t)) \div CharRatio(DetectContentType(t))

NoEstimate == [done |-> FALSE, tokens |-> 0]

\* A caller asks for the estimate of the text.
EstimateTokensCall ==
    /\ UNCHANGED nonEstVars
    /\ ~estimate.done
    /\ estimate' = [done |-> TRUE, tokens |-> EstimateTokens(text)]
    /\ UNCHANGED text

(***************************************************************************)
(* Python floats                                                           *)
(*                                                                         *)
(* A natural number of any size is the sequence of its digits in base      *)
(* Base, least significant first, without high zeros.  A float is m * 2^e  *)
(* with m odd, or zero; every result is rounded to Precision bits, ties to *)
(* even, as IEEE 754 binary64 does.  The values here are never negative    *)
(* and stay far from the subnormal and the overflow ranges.                *)
(***************************************************************************)
\* 52 fraction bits and the leading bit
Precision == 52 + 1
\* Bits of one digit of a big number.
DigitBits == 10
Base == 2 ^ DigitBits
\* Extra quotient bits a division computes before it rounds.
DivShift == 8 * DigitBits

Zeros(k) == [i \in 1..k |-> 0]
Digit(n, j) == IF j \in 1..Len(n) THEN n[j] ELSE 0
TrimDigits(n) ==
    LET nz == {i \in 1..Len(n) : n[i] # 0}
    IN  IF nz = {} THEN <<>>
        ELSE SubSeq(n, 1, CHOOSE i \in nz : \A j \in nz : j <= i)

\* Digits that have grown beyond Base, carried over.
RECURSIVE Carry(_, _)
Carry(c, carry) ==
    IF c = <<>>
    THEN IF carry = 0 THEN <<>>
         ELSE <<carry % Base>> \o Carry(<<>>, carry \div Base)
    ELSE <<(Head(c) + carry) % Base>>
         \o Carry(Tail(c), (Head(c) + carry) \div Base)

RECURSIVE DigitsOf(_)
DigitsOf(n) == IF n = 0 THEN <<>> ELSE <<n % Base>> \o DigitsOf(n \div Base)

RECURSIVE IntOf(_)
IntOf(n) == IF n = <<>> THEN 0 ELSE Head(n) + Base * IntOf(Tail(n))

AddDigits(a, b) ==
    LET len == IF Len(a) >= Len(b) THEN Len(a) ELSE Len(b)
    IN  TrimDigits(Carry([k \in 1..len |-> Digit(a, k) + Digit(b, k)], 0))

RECURSIVE SumProducts(_, _, _, _)
SumProducts(a, b, k, i) ==
    IF i > Len(a) \/ i > k THEN 0
    ELSE Digit(a, i) * Digit(b, k + 1 - i) + SumProducts(a, b, k, i + 1)

MulDigits(a, b) ==
    IF a = <<>> \/ b = <<>> THEN <<>>
    ELSE TrimDigits(Carry([k \in 1..(Len(a) + Len(b) - 1) |->
                              SumProducts(a, b, k, 1)], 0))

\* n * 2^s and n \div 2^s
ShiftLeft(n, s) ==
    TrimDigits(Carry(Zeros(s \div DigitBits)
                     \o [k \in 1..Len(n) |-> n[k] * 2 ^ (s % DigitBits)], 0))
ShiftRight(n, s) ==
    LET a == s \div DigitBits
        b == s % DigitBits
    IN  TrimDigits([j \in 1..(Len(n) - a) |->
                       (n[j + a] \div 2 ^ b)
                       + (Digit(n, j + a + 1) % 2 ^ b) * 2 ^ (DigitBits - b)])

\* Bit i of n, bit 0 the least significant, and the number of bits of n.
BitAt(n, i) == (Digit(n, i \div DigitBits + 1) \div 2 ^ (i % DigitBits)) % 2
BitLen(n) ==
    IF n = <<>> THEN 0
    ELSE DigitBits * (Len(n) - 1)
         + CHOOSE k \in 1..DigitBits :
               2 ^ (k - 1) <= n[Len(n)] /\ n[Len(n)] < 2 ^ k

\* Long division by a small number d, from the most significant digit.
RECURSIVE DivDigits(_, _)
DivDigits(n, d) ==
    IF n = <<>> THEN [q |-> <<>>, r |-> 0]
    ELSE LET hi == DivDigits(Tail(n), d)
             cur == Base * hi.r + Head(n)
         IN  [q |-> <<cur \div d>> \o hi.q, r |-> cur % d]

FZero == [m |-> <<>>, e |-> 0]
Float(m, e) ==
    LET t == TrimDigits(m)
        ones == {i \in 0..(BitLen(t) - 1) : BitAt(t, i) = 1}
        z == CHOOSE i \in ones : \A j \in ones : i <= j
    IN  IF t = <<>> THEN FZero
        ELSE [m |-> ShiftRight(t, z), e |-> e + z]

\* Round m * 2^e, plus something below its last bit when sticky, to nearest,
\* ties to even.
RoundBits(m, e, sticky) ==
    LET t == TrimDigits(m)
        drop == BitLen(t) - Precision
    IN  IF drop <= 0 THEN Float(t, e)
        ELSE LET kept == ShiftRight(t, drop)
                 low == sticky \/ \E i \in 0..(drop - 2) : BitAt(t, i) = 1
                 up == BitAt(t, drop - 1) = 1 /\ (low \/ BitAt(kept, 0) = 1)
             IN  Float(IF up THEN AddDigits(kept, <<1>>) ELSE kept, e + drop)

\* float(n) of a small int
FromInt(n) == Float(DigitsOf(n), 0)
\* x * y
FMul(x, y) == RoundBits(MulDigits(x.m, y.m), x.e + y.e, FALSE)
\* x + y
FAdd(x, y) ==
    IF x = FZero THEN y
    ELSE IF y = FZero THEN x
    ELSE LET e == IF x.e <= y.e THEN x.e ELSE y.e
         IN  RoundBits(AddDigits(ShiftLeft(x.m, x.e - e),
                                 ShiftLeft(y.m, y.e - e)), e, FALSE)
\* x / d for a small int d
FDivInt(x, d) ==
    LET qr == DivDigits(ShiftLeft(x.m, DivShift), d)
    IN  IF x = FZero THEN FZero
        ELSE RoundBits(qr.q, x.e - DivShift, qr.r # 0)
\* The float a decimal literal denotes: p / q correctly rounded.
Literal(pq) == FDivInt(FromInt(pq[1]), pq[2])

\* int(x): towards zero
IntTrunc(x) ==
    IF x.e >= 0 THEN IntOf(ShiftLeft(x.m, x.e))
    ELSE IntOf(ShiftRight(x.m, -x.e))
\* round(x): to the nearest int, ties to even
IntRound(x) ==
    IF x.e >= 0 THEN IntTrunc(x)
    ELSE LET floor == IntTrunc(x)
             low == \E i \in 0..(-x.e - 2) : BitAt(x.m, i) = 1
         IN  IF BitAt(x.m, -x.e - 1) = 1 /\ (low \/ floor % 2 = 1)
             THEN floor + 1
             ELSE floor

(***************************************************************************)
(* ModelRegistry, TokenEstimator.estimate_output_tokens and CostCalculator *)
(*                                                                         *)
(* A name is the sequence of its characters; a price is the decimal        *)
(* literal of the source as <<p, q>> for p / q.                            *)
(***************************************************************************)
\* ModelRegistry.MODELS, in the order of the dict
MODELS == <<
    [model_id |-> <<"g", "e", "m", "i", "n", "i", "-", "2", ".", "0", "-",
                    "f", "l", "a", "s", "h">>,
     input_price_per_million |-> <<75, 1000>>,
     output_price_per_million |-> <<30, 100>>],
    [model_id |-> <<"g", "e", "m", "i", "n", "i", "-", "2", ".", "0", "-",
                    "f", "l", "a", "s", "h", "-", "e", "x", "p">>,
     input_price_per_million |-> <<0, 1>>,
     output_price_per_million |-> <<0, 1>>],
    [model_id |-> <<"g", "e", "m", "i", "n", "i", "-", "1", ".", "5", "-",
                    "f", "l", "a", "s", "h">>,
     input_price_per_million |-> <<75, 1000>>,
     output_price_per_million |-> <<30, 100>>],
    [model_id |-> <<"g", "e", "m", "i", "n", "i", "-", "1", ".", "5", "-",
                    "f", "l", "a", "s", "h", "-", "8", "b">>,
     input_price_per_million |-> <<375, 10000>>,
     output_price_per_million |-> <<15, 100>>],
    [model_id |-> <<"g", "e", "m", "i", "n", "i", "-", "1", ".", "5", "-",
                    "p", "r", "o">>,
     input_price_per_million |-> <<350, 100>>,
     output_price_per_million |-> <<1050, 100>>],
    [model_id |-> <<"g", "e", "m", "i", "n", "i", "-", "2", ".", "5", "-",
                    "f", "l", "a", "s", "h", "-", "p", "r", "e", "v", "i",
                    "e", "w", "-", "0", "5", "-", "2", "0">>,
     input_price_per_million |-> <<15, 100>>,
     output_price_per_million |-> <<60, 100>>],
    [model_id |-> <<"g", "e", "m", "i", "n", "i", "-", "1", ".", "0", "-",
                    "p", "r", "o">>,
     input_price_per_million |-> <<50, 100>>,
     output_price_per_million |-> <<150, 100>>]>>
DEFAULT_MODEL == <<"g", "e", "m", "i", "n", "i", "-", "1", ".", "5", "-", "f", "l", "a", "s", "h">>
ModelIds == {MODELS[i].model_id : i \in 1..Len(MODELS)}
Pricing(id) == MODELS[CHOOSE i \in 1..Len(MODELS) : MODELS[i].model_id = id]

\* DEFAULT_EXCHANGE_RATES
DEFAULT_EXCHANGE_RATES ==
    [c \in {"USD", "EUR", "GBP", "JPY"} |->
        CASE c = "USD" -> <<1, 1>>
          [] c = "EUR" -> <<92, 100>>
          [] c = "GBP" -> <<79, 100>>
          [] c = "JPY" -> <<14950, 100>>]

\* input_price_per_million / 1_000_000, output_price_per_million / 1_000_000
MILLION == 1000000
PricePerToken ==
    [id \in ModelIds |->
        [input |-> FDivInt(Literal(Pricing(id).input_price_per_million),
                           MILLION),
         output |-> FDivInt(Literal(Pricing(id).output_price_per_million),
                            MILLION)]]
\* get_exchange_rate(currency, None)
ExchangeRate == [c \in DOMAIN DEFAULT_EXCHANGE_RATES |->
                    Literal(DEFAULT_EXCHANGE_RATES[c])]

\* s.replace("models/", "")
ModelsPrefix == <<"m", "o", "d", "e", "l", "s", "/">>
RemovePrefixOnly(s) ==
    IF Len(s) >= Len(ModelsPrefix) /\ SubSeq(s, 1, Len(ModelsPrefix)) = ModelsPrefix
    THEN SubSeq(s, Len(ModelsPrefix) + 1, Len(s))
    ELSE s
RECURSIVE ReplaceModels(_)
ReplaceModels(s) ==
    IF Len(s) < Len(ModelsPrefix) THEN s
    ELSE IF SubSeq(s, 1, Len(ModelsPrefix)) = ModelsPrefix
    THEN ReplaceModels(SubSeq(s, Len(ModelsPrefix) + 1, Len(s)))
    ELSE <<Head(s)>> \o ReplaceModels(Tail(s))

\* sub in s
Contains(s, sub) ==
    \E i \in 0..(Len(s) - Len(sub)) : SubSeq(s, i + 1, i + Len(sub)) = sub

\* ModelRegistry.get_model: the model_id of the entry returned
GetModel(model_name) ==
    LET clean_name == Lower(ReplaceModels(model_name))
        hits == {i \in 1..Len(MODELS) :
                    \/ Contains(clean_name, MODELS[i].model_id)
                    \/ Contains(MODELS[i].model_id, clean_name)}
    IN  IF clean_name \in ModelIds THEN clean_name
        ELSE IF hits # {}
        THEN MODELS[CHOOSE i \in hits : \A j \in hits : i <= j].model_id
        ELSE DEFAULT_MODEL

\* TokenEstimator.estimate_output_tokens
EstimateOutputTokens(input_tokens, multiplier) ==
    IntTrunc(FMul(FromInt(input_tokens), multiplier))

\* CostCalculator.__init__ defaults
DefaultCurrency == "EUR"
OutputMultiplier == <<15, 10>>

\* The CostEstimate both calculate methods build from input_tokens.
CostEstimate(input_tokens, model_name, currency, include_output) ==
    LET cur == IF currency = "None" THEN DefaultCurrency ELSE currency
        model == GetModel(model_name)
        output_tokens ==
            IF include_output
            THEN EstimateOutputTokens(input_tokens, Literal(OutputMultiplier))
            ELSE 0
        input_cost_usd == FMul(FromInt(input_tokens), PricePerToken[model].input)
        output_cost_usd == FMul(FromInt(output_tokens), PricePerToken[model].output)
        total_cost_usd == FAdd(input_cost_usd, output_cost_usd)
        exchange_rate == ExchangeRate[cur]
    IN  [input_tokens |-> input_tokens,
         output_tokens |-> output_tokens,
         total_tokens |-> input_tokens + output_tokens,
         input_cost |-> FMul(input_cost_usd, exchange_rate),
         output_cost |-> FMul(output_cost_usd, exchange_rate),
         total_cost |-> FMul(total_cost_usd, exchange_rate),
         currency |-> cur,
         model_id |-> model]

\* calculate_from_tokens
CalculateFromTokens(input_tokens, model_name, currency, include_output) ==
    CostEstimate(input_tokens, model_name, currency, include_output)
\* calculate_cost with content_type None
CalculateCost(t, model_name, currency, include_output) ==
    CostEstimate(EstimateTokens(t), model_name, currency, include_output)

\* Largest token count the calculator is called with.
MaxTokens == 3
ModelNames == {
    <<"g", "e", "m", "i", "n", "i", "-", "1", ".", "5", "-", "p", "r", "o">>,
    <<"m", "o", "d", "e", "l", "s", "/", "g", "e", "m", "i", "n", "i", "-",
      "1", ".", "5", "-", "f", "l", "a", "s", "h", "-", "8", "b">>,
    <<"G", "e", "m", "i", "n", "i", "-", "2", ".", "0", "-", "F", "l", "a",
      "s", "h", "-", "E", "x", "p">>,
    <<"g", "e", "m", "i", "n", "i", "-", "1", ".", "5", "-", "f", "l", "a",
      "s", "h", "-", "l", "a", "t", "e", "s", "t">>,
    <<"g", "e", "m", "i", "n", "i">>,
    <<"g", "p", "t", "-", "4">>,
    <<"g", "e", "m", "i", "n", "i", "-", "1", ".", "5", "-", "m", "o", "d",
      "e", "l", "s", "/", "p", "r", "o">>,
    <<>>}
Multipliers == {<<15, 10>>, <<5, 10>>, <<2, 1>>, <<7, 10>>}
CalcTexts == {<<>>, <<"hello">>, <<"def f(x):", "import os">>}
CalcArgs ==
    [input_tokens : 0..MaxTokens,
     text : CalcTexts,
     model_name : ModelNames,
     currency : DOMAIN DEFAULT_EXCHANGE_RATES \cup {"None"},
     include_output : BOOLEAN,
     multiplier : Multipliers]

NoCalc == [op |-> "none"]

GetModelCall ==
    /\ UNCHANGED nonCostVars
    /\ cout = NoCalc
    /\ cout' = [op |-> "get_model", ret |-> GetModel(cargs.model_name)]
    /\ UNCHANGED cargs

EstimateOutputTokensCall ==
    /\ UNCHANGED nonCostVars
    /\ cout = NoCalc
    /\ cout' = [op |-> "estimate_output_tokens",
                ret |-> EstimateOutputTokens(cargs.input_tokens,
                                             Literal(cargs.multiplier))]
    /\ UNCHANGED cargs

CalculateFromTokensCall ==
    /\ UNCHANGED nonCostVars
    /\ cout = NoCalc
    /\ cout' = [op |-> "calculate_from_tokens",
                ret |-> CalculateFromTokens(cargs.input_tokens, cargs.model_name,
                                            cargs.currency, cargs.include_output)]
    /\ UNCHANGED cargs

CalculateCostCall ==
    /\ UNCHANGED nonCostVars
    /\ cout = NoCalc
    /\ cout' = [op |-> "calculate_cost",
                ret |-> CalculateCost(cargs.text, cargs.model_name,
                                      cargs.currency, cargs.include_output)]
    /\ UNCHANGED cargs

(***************************************************************************)
(* FastFileScanner.detect_existing_docs                                    *)
(*                                                                         *)
(* project.root is what os.scandir(root) yields, project.sub[folder] what  *)
(* root / folder is.  An ExistingDoc is its filename and relative path;    *)
(* found_docs is the dict keyed by filename, as the set of its values.     *)
(***************************************************************************)
\* {gt.filename for gt in GenerationType}
DOC_FILENAMES ==
    {<<"A", "I", "_", "A", "R", "C", "H", "I", "T", "E", "C", "T", "U", "R", "E", ".", "m", "d">>,
     <<"A", "I", "_", "R", "U", "L", "E", "S", ".", "m", "d">>,
     <<"P", "R", "O", "J", "E", "C", "T", "_", "C", "O", "N", "T", "E", "X", "T", ".", "m", "d">>,
     <<"A", "P", "I", "_", "D", "O", "C", "U", "M", "E", "N", "T", "A", "T", "I", "O", "N", ".", "m", "d">>,
     <<"T", "E", "S", "T", "I", "N", "G", "_", "G", "U", "I", "D", "E", ".", "m", "d">>,
     <<"S", "E", "C", "U", "R", "I", "T", "Y", "_", "A", "U", "D", "I", "T", ".", "m", "d">>,
     <<"D", "E", "V", "E", "L", "O", "P", "E", "R", "_", "O", "N", "B", "O", "A", "R", "D", "I", "N", "G", ".", "m", "d">>}
COMMON_DOC_FILES ==
    {<<"R", "E", "A", "D", "M", "E", ".", "m", "d">>,
     <<"C", "H", "A", "N", "G", "E", "L", "O", "G", ".", "m", "d">>,
     <<"C", "O", "N", "T", "R", "I", "B", "U", "T", "I", "N", "G", ".", "m", "d">>,
     <<"L", "I", "C", "E", "N", "S", "E", ".", "m", "d">>,
     <<"A", "R", "C", "H", "I", "T", "E", "C", "T", "U", "R", "E", ".", "m", "d">>,
     <<"D", "O", "C", "S", ".", "m", "d">>,
     <<"D", "O", "C", "U", "M", "E", "N", "T", "A", "T", "I", "O", "N", ".", "m", "d">>,
     <<"A", "P", "I", ".", "m", "d">>,
     <<"S", "E", "C", "U", "R", "I", "T", "Y", ".", "m", "d">>,
     <<"T", "E", "S", "T", "I", "N", "G", ".", "m", "d">>,
     <<"D", "E", "P", "L", "O", "Y", "M", "E", "N", "T", ".", "m", "d">>,
     <<"I", "N", "S", "T", "A", "L", "L", ".", "m", "d">>}
DOC_FOLDERS ==
    {<<"d", "o", "c", "s">>,
     <<"d", "o", "c">>,
     <<"d", "o", "c", "u", "m", "e", "n", "t", "a", "t", "i", "o", "n">>,
     <<"w", "i", "k", "i">>}

\* The entries the project root is built from.
RootEntries == {
    [name |-> <<"R", "E", "A", "D", "M", "E", ".", "m", "d">>, kind |-> "file"],
    [name |-> <<"r", "e", "a", "d", "m", "e", ".", "m", "d">>, kind |-> "file"],
    [name |-> <<"R", "E", "A", "D", "M", "E", ".", "M", "D">>, kind |-> "file"],
    [name |-> <<"A", "I", "_", "R", "U", "L", "E", "S", ".", "m", "d">>, kind |-> "file"],
    [name |-> <<"n", "o", "t", "e", "s", ".", "m", "d">>, kind |-> "file"],
    [name |-> <<"n", "o", "t", "e", "s", ".", "t", "x", "t">>, kind |-> "file"],
    [name |-> <<"A", "P", "I", ".", "m", "d">>, kind |-> "dir"]}
\* The entries its sub-folders are built from.
FolderEntries == {
    [name |-> <<"R", "E", "A", "D", "M", "E", ".", "m", "d">>, kind |-> "file"],
    [name |-> <<"g", "u", "i", "d", "e", ".", "m", "d">>, kind |-> "file"],
    [name |-> <<"n", "o", "t", "e", "s", ".", "t", "x", "t">>, kind |-> "file"]}
\* What root / folder can be.
NoFolder(kind) == [kind |-> kind, listing |-> "ok", entries |-> {}]
Folder(listing, entries) ==
    [kind |-> "dir", listing |-> listing, entries |-> entries]
Folders ==
    {NoFolder("absent"), NoFolder("file")}
    \cup {Folder("perm", {e}) : e \in FolderEntries}
    \cup {Folder("ok", es) : es \in SUBSET FolderEntries}
Docs == <<"d", "o", "c", "s">>
Wiki == <<"w", "i", "k", "i">>
Src == <<"s", "r", "c">>
SubFolders == {Docs, Wiki, Src}
Projects ==
    {[root |-> r, sub |-> sub] :
        r \in SUBSET RootEntries,
        sub \in {f \in [SubFolders -> Folders] :
                    /\ f[Src] = Folder("ok", FolderEntries)
                    /\ f[Wiki].kind \in {"absent", "dir"}
                    /\ f[Wiki].listing = "ok"
                    /\ Cardinality(f[Wiki].entries) <= 1}}

\* doc_path.exists() and doc_path.is_dir()
IsDir(folder) == folder \in SubFolders /\ project.sub[folder].kind = "dir"

\* name.lower().endswith('.md')
EndsWithMd(name) ==
    /\ Len(name) >= 3
    /\ SubSeq(Lower(name), Len(name) - 2, Len(name)) = <<".", "m", "d">>

\* is_known
IsKnownAnyCase(name) ==
    \E k \in DOC_FILENAMES \cup COMMON_DOC_FILES : Lower(k) = Lower(name)
IsKnown(name) ==
    \/ name \in DOC_FILENAMES
    \/ name \in COMMON_DOC_FILES
    \/ Upper(name) \in DOC_FILENAMES
    \/ Upper(name) \in COMMON_DOC_FILES

\* str(path.relative_to(root)): the folder, "." for the root, and the name
RootDir == <<".">>
RelPath(dir, name) == <<dir, name>>

\* os.scandir(search_path), an OSError caught
Scandir(dir) ==
    IF dir = RootDir
    THEN project.root
         \cup {[name |-> f, kind |-> project.sub[f].kind] :
                  f \in {g \in SubFolders : project.sub[g].kind # "absent"}}
    ELSE IF project.sub[dir].listing = "ok" THEN project.sub[dir].entries
    ELSE {}

\* The entries of search_path that _scan_for_docs hands to _add_existing_doc
DocsIn(dir) ==
    {e \in Scandir(dir) :
        /\ e.kind = "file"
        /\ EndsWithMd(e.name)
        /\ (IsKnown(e.name) \/ dir # RootDir)}

\* found_docs[filename] = doc, for every doc of one search path
AddExistingDocs(docs, dir) ==
    LET new == {[filename |-> e.name, relative_path |-> RelPath(dir, e.name)] :
                   e \in DocsIn(dir)}
    IN  {d \in docs : \A n \in new : n.filename # d.filename} \cup new

\* Every order the loop over the set DOC_FOLDERS can take.
Orders(S) ==
    {o \in [1..Cardinality(S) -> S] :
        \A i, j \in 1..Cardinality(S) : o[i] = o[j] => i = j}

\* detect_existing_docs: search_paths = [root] and the doc folders there are
DetectBegin ==
    /\ UNCHANGED nonDocVars
    /\ dpc = "idle"
    /\ \E o \in Orders({f \in DOC_FOLDERS : IsDir(f)}) :
          search_paths' = <<RootDir>> \o o
    /\ found_docs' = {}
    /\ dpc' = "scanning"
    /\ UNCHANGED <<project, existing_docs>>

\* one turn of `for search_path in search_paths`: _scan_for_docs
ScanForDocs ==
    /\ UNCHANGED nonDocVars
    /\ dpc = "scanning"
    /\ search_paths # <<>>
    /\ found_docs' = AddExistingDocs(found_docs, Head(search_paths))
    /\ search_paths' = Tail(search_paths)
    /\ UNCHANGED <<project, dpc, existing_docs>>

\* result.existing_docs = found_docs
DetectReturn ==
    /\ UNCHANGED nonDocVars
    /\ dpc = "scanning"
    /\ search_paths = <<>>
    /\ existing_docs' = found_docs
    /\ dpc' = "done"
    /\ UNCHANGED <<project, search_paths, found_docs>>

(***************************************************************************)
(* Specifications                                                          *)
(***************************************************************************)
IdleGen ==
    /\ generating = FALSE
    /\ cancel_generation = FALSE
    /\ event_queue = <<>>
    /\ wtask = "none"
    /\ wpc = "idle"
    /\ total_docs = 0
    /\ doc_i = 0
    /\ completed = 0
    /\ failed = 0
    /\ attempt = 0
    /\ last_error = ""
    /\ result = NoResult
    /\ glog = <<>>
    /\ cancel_mark = NoMark

IdleScan ==
    /\ progress_callback = FALSE
    /\ cancel_flag = FALSE
    /\ spc = "idle"
    /\ sstack = <<>>
    /\ files_found = <<>>
    /\ scan_result = EmptyScanResult
    /\ progress = <<>>
    /\ entry_flag = FALSE

IdleRead ==
    /\ has_result = FALSE
    /\ tab_files = <<>>
    /\ content_map = [f \in Files |-> None]
    /\ rmode = "none"
    /\ rsnap = <<>>
    /\ ridx = 0
    /\ rprogress = <<>>
    /\ call_flags = [f \in Files |-> FALSE]
    /\ rentry_flag = FALSE
    /\ read_log = {}
    /\ prep_outcome = "none"
    /\ code_content = {}
    /\ asm_flags = [f \in Files |-> FALSE]

\* A CostHistoryManager built on an empty ledger file, with no call made.
IdleLedger ==
    /\ alive = TRUE
    /\ now = ClockStart
    /\ lpc = [t \in Threads |-> "idle"]
    /\ lsnap = [t \in Threads |-> <<>>]
    /\ lover = [t \in Threads |-> FALSE]
    /\ saves_ok = TRUE
    /\ adds = 0
    /\ last_mut = NoMut
    /\ spend = NoSpend
    /\ got_entries = NoEntries

IdleEstimate ==
    /\ text = <<>>
    /\ estimate = NoEstimate

IdleCost ==
    /\ cargs = CHOOSE a \in CalcArgs : TRUE
    /\ cout = NoCalc

IdleDocs ==
    /\ IdleCost
    /\ project = [root |-> {}, sub |-> [f \in SubFolders |-> NoFolder("absent")]]
    /\ dpc = "idle"
    /\ search_paths = <<>>
    /\ found_docs = {}
    /\ existing_docs = {}

\* No model cache on disk and a client that is not configured.
IdleCache ==
    /\ IdleEstimate
    /\ cache_file = NoCache("missing")
    /\ chour = 0
    /\ configured = FALSE
    /\ available_models = <<>>
    /\ cret = NoCall

EmptyLedger ==
    /\ IdleCache
    /\ IdleDocs
    /\ IdleLedger
    /\ workload = CallProfiles
    /\ ledger_file = OldDoc(0)
    /\ lvalid = TRUE
    /\ history = <<>>

InitGen ==
    /\ EmptyLedger
    /\ IdleGen
    /\ genai_available \in BOOLEAN
    /\ IdleScan
    /\ tree = CHOOSE t \in Trees : TRUE
    /\ IdleRead
    /\ disk = [f \in Files |-> "utf8"]

InitScan ==
    /\ EmptyLedger
    /\ IdleScan
    /\ tree \in Trees
    /\ IdleGen
    /\ genai_available = TRUE
    /\ IdleRead
    /\ disk = [f \in Files |-> "utf8"]

NextScan ==
    \/ SetProgressCallback
    \/ Cancel
    \/ ScanBegin
    \/ ScanDirEnter
    \/ ScanEntry
    \/ ScanFinish

SpecScan == InitScan /\ [][NextScan]_vars

InitRead ==
    /\ EmptyLedger
    /\ IdleRead
    /\ disk \in [Files -> DiskKinds]
    /\ IdleScan
    /\ tree = CHOOSE t \in Trees : TRUE
    /\ IdleGen
    /\ genai_available = TRUE

NextRead ==
    \/ ScanCompleted
    \/ ToggleFile
    \/ SetAllFiles
    \/ CancelRead
    \/ ReadFilesCall
    \/ PrepareBegin
    \/ ReadStep
    \/ ReadReturn

SpecRead == InitRead /\ [][NextRead]_vars

IdleOthers ==
    /\ IdleGen
    /\ IdleDocs
    /\ genai_available = TRUE
    /\ IdleScan
    /\ tree = CHOOSE t \in Trees : TRUE
    /\ IdleRead
    /\ disk = [f \in Files |-> "utf8"]

\* __init__ of a CostHistoryManager: whatever is at the path is loaded.
InitLedger ==
    /\ IdleCache
    /\ IdleLedger
    /\ workload = CallProfiles
    /\ ledger_file \in SmallLedgerFiles
    /\ lvalid = (ledger_file.kind = "doc")
    /\ history = Load(ledger_file)
    /\ IdleOthers

NextLedger ==
    \/ AddEntryCall
    \/ ClearCall
    \/ SaveSnapshot
    \/ SaveOpen
    \/ SaveWrite
    \/ Crash
    \/ Restart

SpecLedger == InitLedger /\ [][NextLedger]_vars

\* The same manager started on a ledger file that is full or one short.
InitLedgerFull ==
    /\ IdleCache
    /\ IdleLedger
    /\ workload = {CHOOSE w \in CallProfiles :
                      w.currency = "EUR" /\ w.actual_cost = Absent}
    /\ ledger_file \in FullLedgerFiles
    /\ lvalid = TRUE
    /\ history = Load(ledger_file)
    /\ IdleOthers

SpecLedgerFull == InitLedgerFull /\ [][NextLedger]_vars

\* get_total_spend over the histories of at most MaxHistory entries.
InitSpend ==
    /\ IdleCache
    /\ IdleLedger
    /\ workload = CallProfiles
    /\ history \in UNION {[1..n -> {MakeEntry(w, t) : w \in CallProfiles,
                                                     t \in 0..ClockStart}] :
                          n \in 0..MaxHistory}
    /\ ledger_file = LedgerDoc(history)
    /\ lvalid = TRUE
    /\ IdleOthers

NextSpend ==
    \/ GetTotalSpend
    \/ GetEntriesCall
    \/ ClockTick

SpecSpend == InitSpend /\ [][NextSpend]_vars

\* GeminiAPIClient.__init__ with whatever is at the cache path.
InitCache ==
    /\ IdleEstimate
    /\ cache_file \in CacheFiles
    /\ chour = 0
    /\ configured = FALSE
    /\ available_models = <<>>
    /\ cret = NoCall
    /\ IdleLedger
    /\ IdleDocs
    /\ workload = CallProfiles
    /\ ledger_file = OldDoc(0)
    /\ lvalid = TRUE
    /\ history = <<>>
    /\ IdleGen
    /\ genai_available \in BOOLEAN
    /\ IdleScan
    /\ tree = CHOOSE t \in Trees : TRUE
    /\ IdleRead
    /\ disk = [f \in Files |-> "utf8"]

NextCache ==
    \/ Configure
    \/ LoadModelsFromCache
    \/ GetAvailableModels
    \/ HourPasses

SpecCache == InitCache /\ [][NextCache]_vars

\* estimate_tokens over the texts of at most MaxLines catalogue lines.
InitEstimate ==
    /\ text \in UNION {[1..n -> Lines] : n \in 0..MaxLines}
    /\ estimate = NoEstimate
    /\ cache_file = NoCache("missing")
    /\ chour = 0
    /\ configured = FALSE
    /\ available_models = <<>>
    /\ cret = NoCall
    /\ IdleLedger
    /\ workload = CallProfiles
    /\ ledger_file = OldDoc(0)
    /\ lvalid = TRUE
    /\ history = <<>>
    /\ IdleOthers

NextEstimate ==
    \/ EstimateTokensCall

SpecEstimate == InitEstimate /\ [][NextEstimate]_vars

\* detect_existing_docs on whatever project directory there is.
InitDocs ==
    /\ IdleCache
    /\ IdleLedger
    /\ workload = CallProfiles
    /\ ledger_file = OldDoc(0)
    /\ lvalid = TRUE
    /\ history = <<>>
    /\ IdleGen
    /\ genai_available = TRUE
    /\ IdleScan
    /\ tree = CHOOSE t \in Trees : TRUE
    /\ IdleRead
    /\ disk = [f \in Files |-> "utf8"]
    /\ IdleCost
    /\ project \in Projects
    /\ dpc = "idle"
    /\ search_paths = <<>>
    /\ found_docs = {}
    /\ existing_docs = {}

NextDocs ==
    \/ DetectBegin
    \/ ScanForDocs
    \/ DetectReturn

SpecDocs == InitDocs /\ [][NextDocs]_vars

\* The calculator and the registry on whatever arguments there are.
InitCost ==
    /\ IdleCache
    /\ IdleLedger
    /\ workload = CallProfiles
    /\ ledger_file = OldDoc(0)
    /\ lvalid = TRUE
    /\ history = <<>>
    /\ IdleGen
    /\ genai_available = TRUE
    /\ IdleScan
    /\ tree = CHOOSE t \in Trees : TRUE
    /\ IdleRead
    /\ disk = [f \in Files |-> "utf8"]
    /\ project = [root |-> {}, sub |-> [f \in SubFolders |-> NoFolder("absent")]]
    /\ dpc = "idle"
    /\ search_paths = <<>>
    /\ found_docs = {}
    /\ existing_docs = {}
    /\ cargs \in CalcArgs
    /\ cout = NoCalc

NextCost ==
    \/ GetModelCall
    \/ EstimateOutputTokensCall
    \/ CalculateFromTokensCall
    \/ CalculateCostCall

SpecCost == InitCost /\ [][NextCost]_vars

NextGen ==
    \/ StartSingle
    \/ StartSelected
    \/ StartBundle
    \/ SingleTaskRun
    \/ SingleTaskDone
    \/ MultiTaskLoop
    \/ MultiTaskResult
    \/ MultiTaskPauseDone
    \/ AttemptSucceeds
    \/ AttemptFails
    \/ BackoffDone
    \/ CancelGeneration
    \/ ProcessEvent

SpecGen == InitGen /\ [][NextGen]_vars

(***************************************************************************)
(* Properties of generate_documentation and of the generation workers      *)
(***************************************************************************)
EventsOf(log, e) == {i \in 1..Len(log) : log[i].ev = e}
NumAttempts(log) == Cardinality(EventsOf(log, "attempt"))

\* C1: when every attempt fails, generate_documentation calls the attempt
\* exactly MAX_RETRIES times and then returns success=False; it never makes
\* more than MAX_RETRIES calls.
C1_ExhaustedAfterMaxRetries ==
    /\ NumAttempts(glog) <= MAX_RETRIES
    /\ (wpc = "returned" /\ EventsOf(glog, "ok") = {}) =>
          /\ NumAttempts(glog) = MAX_RETRIES
          /\ Cardinality(EventsOf(glog, "fail")) = MAX_RETRIES
          /\ result.success = FALSE

C1_Witness ==
    /\ wpc = "returned"
    /\ result.success = FALSE
    /\ NumAttempts(glog) = MAX_RETRIES
    /\ EventsOf(glog, "ok") = {}

\* C2: if the first k attempts fail and attempt k+1 succeeds, the result has
\* success=True, retries = k and the content of that attempt, and no call
\* follows the success.
C2_SuccessAfterKFailures ==
    \A i \in EventsOf(glog, "ok") :
        /\ i = Len(glog)
        /\ glog[i].n < MAX_RETRIES
        /\ Cardinality(EventsOf(glog, "fail")) = glog[i].n
        /\ NumAttempts(glog) = glog[i].n + 1
        /\ result.success = TRUE
        /\ result.retries = glog[i].n
        /\ result.content = glog[i].c

C2_Witness ==
    /\ wpc = "returned"
    /\ result.success
    /\ result.retries = 2
    /\ Cardinality(EventsOf(glog, "fail")) = 2

\* C3: after failed attempt number n (1-based) that is not the last allowed
\* one the call sleeps RETRY_DELAY * n before attempt n+1; it does not sleep
\* before the first attempt, after a success or after the final attempt.
C3_LinearBackoffBetweenAttempts ==
    /\ glog # <<>> => glog[1] = Ev("attempt", 0)
    /\ \A i \in 1..Len(glog) :
        /\ (glog[i].ev = "attempt" /\ glog[i].n > 0) =>
              /\ i >= 3
              /\ glog[i-1] = Ev("sleep", RETRY_DELAY * glog[i].n)
              /\ glog[i-2].ev = "fail"
              /\ glog[i-2].n = glog[i].n - 1
        /\ glog[i].ev = "sleep" =>
              /\ i >= 2
              /\ glog[i-1].ev = "fail"
              /\ glog[i-1].n + 1 < MAX_RETRIES
              /\ glog[i].n = RETRY_DELAY * (glog[i-1].n + 1)
        /\ (glog[i].ev = "fail" /\ glog[i].n + 1 < MAX_RETRIES) =>
              /\ i < Len(glog)
              /\ glog[i+1].ev = "sleep"
        /\ (glog[i].ev = "fail" /\ glog[i].n + 1 = MAX_RETRIES) =>
              i = Len(glog)
        /\ glog[i].ev = "ok" => i = Len(glog)

C3_Witness ==
    /\ wpc = "attempt"
    /\ attempt = 2
    /\ Cardinality(EventsOf(glog, "sleep")) = 2
    /\ glog[3] = Ev("sleep", 2)
    /\ glog[6] = Ev("sleep", 4)

\* C4: if cancellation is requested while attempt n of a document is in
\* flight and attempt n then fails, no attempt n+1 is started for that
\* document.
C4_NoAttemptAfterCancel ==
    (/\ cancel_mark.pc = "attempt"
     /\ cancel_generation
     /\ wtask # "none"
     /\ cancel_mark.doc = doc_i) =>
        attempt = cancel_mark.attempt

(***************************************************************************)
(* Properties of FastFileScanner.scan                                      *)
(***************************************************************************)
FileNodes == Nodes \ DirNodes
Ancestors(n) == CASE n = 5 -> {2, 4}
                  [] n \in {3, 4} -> {2}
                  [] OTHER -> {}

\* Directories between the root and directory d, d included, pads counted.
DirDepth(d) == CASE d = 2 -> 1 + tree[2].pad
                 [] d = 4 -> 2 + tree[2].pad + tree[4].pad
                 [] OTHER -> 0

\* The path of node n relative to the scan root, from the tree alone.
RECURSIVE RelOf(_)
RelOf(n) == IF n = Root THEN <<>>
            ELSE RelOf(Parent(n)) \o Pad(tree[n].pad) \o <<tree[n].name>>

\* Every directory on the way to n can be listed and n's stat succeeds.
Readable(n) ==
    /\ tree[n].stat_ok
    /\ \A a \in Ancestors(n) \cup {Root} : tree[a].listing = "ok"

WithinDepth(n) == \A a \in Ancestors(n) : DirDepth(a) <= MAX_SCAN_DEPTH

RegularSupportedSmall(n) ==
    /\ tree[n].kind = "file"
    /\ Lower(Suffix(tree[n].name)) \in SUPPORTED_EXTENSIONS
    /\ tree[n].size <= MAX_FILE_SIZE
    /\ ~StartsWithDot(tree[n].name)

\* The claim's files: no ancestor ignored or dot-prefixed.
EligibleNoDotAncestor(n) ==
    /\ RegularSupportedSmall(n)
    /\ WithinDepth(n)
    /\ \A a \in Ancestors(n) :
          /\ tree[a].name \notin DEFAULT_IGNORED_DIRS
          /\ ~StartsWithDot(tree[a].name)

\* The same, a directory named .env.example being descended into.
EligibleAllowList(n) ==
    /\ RegularSupportedSmall(n)
    /\ WithinDepth(n)
    /\ \A a \in Ancestors(n) :
          /\ tree[a].name \notin DEFAULT_IGNORED_DIRS
          /\ (StartsWithDot(tree[a].name) =>
                 tree[a].name = <<".", "e", "n", "v", ".", "e", "x", "a", "m", "p", "l", "e">>)

InventoryIs(want) ==
    LET got == scan_result.files IN
    /\ \A n \in want :
          Cardinality({i \in 1..Len(got) :
                          got[i].relative_path = RelOf(n)}) = 1
    /\ \A i \in 1..Len(got) :
          \E n \in want :
              /\ got[i].relative_path = RelOf(n)
              /\ got[i].path = RootPath \o RelOf(n)
              /\ got[i].size = tree[n].size
              /\ got[i].included

C6_CancelKeepsAccumulated ==
    spc = "cancelled" => scan_result.files = files_found

\* C7: with a progress callback set, every scan() call reports 100 exactly
\* once, as its last report, when it completes and when it is cancelled.
C7_HundredExactlyOnce ==
    (spc \in {"complete", "cancelled"} /\ progress_callback) =>
        /\ Cardinality({i \in 1..Len(progress) : progress[i] = 100}) = 1
        /\ progress[Len(progress)] = 100

\* C8: scan() never raises because of the filesystem; a root that cannot
\* be listed gives zero files; a directory whose listing fails contributes
\* nothing, and every file that passes the filters and lies under listable
\* directories only is still found.
C8_ListingFailuresSwallowed ==
    /\ spc # "raised"
    /\ spc = "complete" =>
          /\ tree[Root].listing # "ok" => scan_result.files = <<>>
          /\ \A n \in FileNodes :
                (\E a \in Ancestors(n) : tree[a].listing # "ok") =>
                    \A i \in 1..Len(scan_result.files) :
                        scan_result.files[i].relative_path # RelOf(n)
          /\ \A n \in FileNodes :
                (EligibleAllowList(n) /\ Readable(n)) =>
                    \E i \in 1..Len(scan_result.files) :
                        scan_result.files[i].relative_path = RelOf(n)

C8_Witness ==
    /\ spc = "complete"
    /\ tree[4].listing = "perm"
    /\ tree[2].listing = "ok"
    /\ Len(scan_result.files) = 2

(***************************************************************************)
(* Properties of read_files and of the assembled code content              *)
(***************************************************************************)
\* C9: every content_map entry was added by a read_files call during which
\* the file's included flag was true; a file whose flag is false when
\* read_files is called is neither read nor added by that call.
C9_ContentOnlyFromIncludedReads ==
    /\ \A e \in read_log : e.flag = TRUE
    /\ \A f \in Files :
          content_map[f] # None =>
              \E e \in read_log : e.path = f /\ e.flag /\ e.stored

C9_Witness ==
    /\ rmode = "none"
    /\ rprogress = <<0, 100>>
    /\ read_log = {[path |-> 1, flag |-> TRUE, stored |-> TRUE]}
    /\ content_map[1] # None
    /\ content_map[2] = None
    /\ disk[2] = "utf8"
    /\ ~tab_files[2].included

\* C10: the assembled code content holds the text of a file only if the
\* file's included flag is true at assembly time, also when content_map
\* still holds the text of a file excluded after an earlier read.
C10_AssembledOnlyIncluded ==
    \A f \in code_content : asm_flags[f]

C10_Witness ==
    /\ prep_outcome = "ok"
    /\ code_content # {}
    /\ \E f \in Files :
          /\ content_map[f] # None
          /\ ~asm_flags[f]
          /\ f \notin code_content

(***************************************************************************)
(* Properties of CostHistoryManager                                        *)
(***************************************************************************)
Quiescent == alive /\ \A t \in Threads : lpc[t] = "idle"

\* C11: once the add_entry calls in flight have all returned, with no _save
\* failing, the ledger file holds every entry the in-memory history holds:
\* no update is lost to a concurrent caller.
C11_NoLostUpdate ==
    (Quiescent /\ saves_ok /\ last_mut.op = "add")
        => ledger_file = LedgerDoc(LastN(history, MAX_ENTRIES))

\* C12: after add_entry calls with successful persists, neither the
\* in-memory history nor the persisted list holds more than MAX_ENTRIES
\* entries.
C12_CappedAtMaxEntries ==
    (Quiescent /\ saves_ok /\ last_mut.op = "add")
        => /\ Len(history) <= MAX_ENTRIES
           /\ Len(ledger_file.entries) <= MAX_ENTRIES

\* C13: every entry's accuracy_ratio is actual_tokens / estimated_tokens
\* when actual_tokens was supplied (0 included) and the estimate's total is
\* not zero, and is absent otherwise.
C13_AccuracyRatio ==
    \A i \in 1..Len(history) :
        LET e == history[i] IN
        e.accuracy_ratio =
            IF e.actual_tokens # Absent /\ e.estimated_tokens # 0
            THEN <<e.actual_tokens, e.estimated_tokens>>
            ELSE <<>>

\* strptime of an ISO timestamp: the time it denotes
TimeOf(iso) ==
    iso[1] * TicksPerDay + (IF Len(iso) > 1 THEN iso[2] ELSE 0)

RECURSIVE SumCosts(_, _)
SumCosts(h, chosen) ==
    IF h = <<>> THEN 0
    ELSE (IF chosen[1]
          THEN IF Head(h).actual_cost # Absent
               THEN Head(h).actual_cost ELSE Head(h).estimated_cost
          ELSE 0) + SumCosts(Tail(h), Tail(chosen))

InWindow(e, currency, days, at) ==
    /\ TimeOf(e.timestamp) >= at - days * TicksPerDay
    /\ e.currency = currency

\* C14: get_total_spend(currency, days) is the sum, over the entries of
\* that currency stamped within the trailing window, of actual_cost when
\* present and of estimated_cost otherwise.
C14_TotalSpend ==
    spend # NoSpend =>
        spend.total =
            SumCosts(history,
                     [i \in 1..Len(history) |->
                        InWindow(history[i], spend.currency, spend.days,
                                 spend.at)])

C14_Witness ==
    /\ spend # NoSpend
    /\ spend.total = 100
    /\ Len(history) = 2
    /\ \E i, j \in 1..2 :
          /\ InWindow(history[i], spend.currency, spend.days, spend.at)
          /\ history[i].actual_cost = Absent
          /\ history[j].estimated_cost > 0
          /\ ~InWindow(history[j], spend.currency, spend.days, spend.at)

\* C15: a failing write never makes add_entry or clear raise, and the
\* in-memory history keeps the mutation: the new entry is its last entry,
\* or it is empty.
C15_FailedSaveSwallowed ==
    /\ \A t \in Threads : lpc[t] # "raised"
    /\ last_mut.op = "add" =>
          /\ history # <<>>
          /\ history[Len(history)] = last_mut.entry
    /\ last_mut.op = "clear" => history = <<>>

C15_Witness ==
    /\ Quiescent
    /\ ~saves_ok
    /\ last_mut.op = "add"
    /\ history # <<>>
    /\ history[Len(history)] = last_mut.entry
    /\ ledger_file # LedgerDoc(history)

\* C18: after a crash the ledger file is a complete document whenever it
\* was one before the write that was in progress.
C18_CrashLeavesCompleteFile ==
    (~alive /\ lvalid) => ledger_file.kind = "doc"

\* C16: once a generation has completed and the interface has handled its
\* completion, the cost-history ledger holds an entry for it.
C16_CompletedGenerationRecorded ==
    (~generating /\ event_queue = <<>> /\ result # NoResult)
        => Len(history) >= 1

(***************************************************************************)
(* Properties of the model cache                                           *)
(***************************************************************************)
\* C17: a get_available_models(force_refresh=False) call made while the
\* cache file holds a list cached less than MODELS_CACHE_HOURS ago returns
\* that list without invoking list_models, whatever the list contains; a
\* call with force_refresh=True on a configured client invokes it.
C17_CacheHonoured ==
    /\ (cret.op = "get" /\ ~cret.force /\ cret.fresh)
          => /\ ~cret.invoked
             /\ ~cret.raised
             /\ cret.value = cret.cached
    /\ (cret.op = "get" /\ cret.force /\ cret.able) => cret.invoked

\* C19: whatever the cache file holds that is not a well-formed cache
\* document, reading it raises nothing and yields no cached models.
C19_PermissiveLoad ==
    (cret.op # "none" /\ cret.kind # "doc")
        => /\ ~cret.raised
           /\ cret.op = "load" => cret.value = <<>>

(***************************************************************************)
(* Properties of TokenEstimator                                            *)
(***************************************************************************)
\* The divisor of each family, in tenths.
FamilyDivisor(family) ==
    CASE family = "code" -> 38
      [] family = "prose_it" -> 42
      [] family = "json" -> 35
      [] OTHER -> 40

\* C20: estimate_tokens(text) is floor(len(text) / ratio) for the ratio of
\* the family detect_content_type gives the text, and 0 for the empty
\* string.
C20_FloorOfLengthOverRatio ==
    estimate.done =>
        LET r == FamilyDivisor(DetectContentType(text))
            n == estimate.tokens
        IN /\ n >= 0
           /\ n * r <= 10 * TextLen(text)
           /\ 10 * TextLen(text) < (n + 1) * r
           /\ text = <<>> => n = 0

C20_Witness ==
    /\ estimate.done
    /\ DetectContentType(text) = "code"
    /\ TextLen(text) = 19
    /\ estimate.tokens = 5

(***************************************************************************)
(* Properties of the GenerationResult                                      *)
(***************************************************************************)
\* C24: the retries field of every returned GenerationResult is the number
\* of attempts made beyond the first.
C24_RetriesIsAttemptsBeyondFirst ==
    result # NoResult => result.retries = NumAttempts(glog) - 1

LastFailure(log) ==
    LET fails == EventsOf(log, "fail")
        last == CHOOSE i \in fails : \A j \in fails : j <= i
    IN log[last].c

\* C25: every failed attempt is followed by another attempt until
\* MAX_RETRIES are made; a successful result has an empty error_message
\* whatever failed before it, and an exhausted result has the message of
\* the last failed attempt.
C25_ErrorOnlyOnExhaustion ==
    result # NoResult =>
        IF result.success
        THEN result.error_message = ""
        ELSE /\ Cardinality(EventsOf(glog, "fail")) = MAX_RETRIES
             /\ result.error_message = LastFailure(glog)

C25_Witness ==
    /\ result # NoResult
    /\ ~result.success
    /\ result.error_message = "e2"
    /\ \E i \in EventsOf(glog, "fail") : glog[i].c = "e1"


\* C30: a worker is submitted only while no task is in flight and
\* _generating is false, _generating is true from the submission on, and it
\* becomes false only in the completion callback of the task, once that
\* task's worker has finished.
C30_AtMostOneInFlight ==
    /\ [](wtask # "none" => generating)
    /\ [][(wpc' = "queued" /\ wpc # "queued")
            => (wtask = "none" /\ ~generating /\ generating')]_vars
    /\ [][(generating /\ ~generating')
            => /\ wtask = "none"
               /\ event_queue # <<>>
               /\ Head(event_queue).cb \in
                     {"single_done", "bundle_complete", "bundle_cancelled"}]_vars

C30_Witness ==
    /\ generating
    /\ cancel_generation
    /\ wtask = "multi"
    /\ wpc = "attempt"
    /\ doc_i = 1


(***************************************************************************)
(* Properties of the shared cancel flag                                    *)
(***************************************************************************)
\* C29: scan() clears the cancel flag on entry, so a cancel() issued before
\* scan() has no effect: the flag is clear once scan() has entered, such a
\* scan that nobody cancels afterwards completes with the full inventory,
\* and a scan ends cancelled only with the flag set after the clear.
C29_CancelBeforeScanHasNoEffect ==
    /\ [][(spc # "scanning" /\ spc' = "scanning") => ~cancel_flag']_vars
    /\ [][(spc = "scanning" /\ spc' = "cancelled") => cancel_flag]_vars
    /\ []((spc = "complete" /\ entry_flag) =>
             InventoryIs({n \in FileNodes : EligibleAllowList(n) /\ Readable(n)}))

C29_Witness ==
    /\ spc = "complete"
    /\ entry_flag
    /\ ~cancel_flag
    /\ Len(scan_result.files) = 2

\* C26: a read_files() call stops early only if cancel() was called while
\* that call was running: a call that found the flag already set on entry,
\* left by a cancel() during an earlier scan() or read_files(), reads on.
C26_StaleCancelDoesNotStopRead ==
    (rmode # "none" /\ rentry_flag) => ridx # -1

\* C28: get_entries(limit), limit >= 0, returns exactly the min(limit, n)
\* most recently appended entries of a ledger of n entries, in append
\* order; none when limit is 0.
C28_MostRecentEntries ==
    got_entries # NoEntries =>
        LET n == Len(history)
            k == IF got_entries.limit <= n THEN got_entries.limit ELSE n
        IN /\ Len(got_entries.ret) = k
           /\ \A i \in 1..k : got_entries.ret[i] = history[n - k + i]

(***************************************************************************)
(* Properties of detect_existing_docs                                      *)
(***************************************************************************)
Registered(rel) == \E d \in existing_docs : d.relative_path = rel

\* C27: detect_existing_docs registers a markdown file of the scan root if
\* and only if its name matches, whatever the case, a generated-artifact
\* filename or a common project-doc name, and registers every markdown
\* file directly in a documentation sub-folder whatever its name.
C27_KnownRootDocsAndAllFolderDocs ==
    dpc = "done" =>
        /\ \A e \in project.root :
              (e.kind = "file" /\ EndsWithMd(e.name)) =>
                  (Registered(RelPath(RootDir, e.name))
                      <=> IsKnownAnyCase(e.name))
        /\ \A f \in DOC_FOLDERS :
              (IsDir(f) /\ project.sub[f].listing = "ok") =>
                  \A e \in project.sub[f].entries :
                      (e.kind = "file" /\ EndsWithMd(e.name)) =>
                          Registered(RelPath(f, e.name))

(***************************************************************************)
(* Properties of the registry and the cost calculator                      *)
(***************************************************************************)
\* C21: estimate_output_tokens(input_tokens, multiplier) equals
\* round(input_tokens * multiplier) for every non-negative token count and
\* multiplier.
C21_OutputTokensRounded ==
    cout.op = "estimate_output_tokens" =>
        cout.ret = IntRound(FMul(FromInt(cargs.input_tokens),
                                 Literal(cargs.multiplier)))

\* C22: get_model never fails; with the name stripped of the 'models/'
\* prefix and lowercased, a name equal to a registry key gives that key's
\* entry, otherwise a name containing a key or contained in one gives an
\* entry matched that way, otherwise the default entry is returned.
C22_LookupTotal ==
    cout.op = "get_model" =>
        LET name == Lower(RemovePrefixOnly(cargs.model_name)) IN
        /\ cout.ret \in ModelIds
        /\ IF name \in ModelIds THEN cout.ret = name
           ELSE IF \E k \in ModelIds : Contains(name, k) \/ Contains(k, name)
           THEN Contains(name, cout.ret) \/ Contains(cout.ret, name)
           ELSE cout.ret = DEFAULT_MODEL

\* C23: every CostEstimate of calculate_cost and calculate_from_tokens has
\* total_tokens = input_tokens + output_tokens and total_cost = input_cost
\* + output_cost, costs that are not negative, and no output tokens and no
\* output cost when include_output is false.  (A float of this model has no
\* sign, so the costs are not negative by construction.)
C23_CostEstimateConsistent ==
    cout.op \in {"calculate_cost", "calculate_from_tokens"} =>
        /\ cout.ret.total_tokens = cout.ret.input_tokens + cout.ret.output_tokens
        /\ cout.ret.total_cost = FAdd(cout.ret.input_cost, cout.ret.output_cost)
        /\ ~cargs.include_output =>
              cout.ret.output_tokens = 0 /\ cout.ret.output_cost = FZero

====
